---- MODULE Spec2Model ----
(***************************************************************************)
(* A model of the General Ledger report engine of qbo-cli                  *)
(* (src/qbo_cli/cli.py): the GL row parser, the section lookup, the        *)
(* subtotal engine and the text renderers, the flat ledger and the         *)
(* by-customer report, the account tree builder, the resolution of the     *)
(* arguments of gl-report, the date range of the title and _pad_line; and  *)
(* of what fetches its data: the paging of QBOClient.query, the retry of   *)
(* QBOClient.request and the locked refresh of the token manager.          *)
(*                                                                         *)
(* Strings are sequences of one-character strings, so that strip(),        *)
(* endswith(), len() and float() are computed and not assumed.  Amounts    *)
(* are integers: the inputs are amount strings that denote whole numbers,  *)
(* on which Python's float arithmetic is exact.  A dict key that is absent *)
(* and read with .get(key, "") is modelled by the empty string.            *)
(***************************************************************************)
EXTENDS Integers, Sequences, FiniteSets, TLC

VARIABLES
    pc,        \* position of the gl-report command
    rows,      \* gl_data["Rows"]: the raw Rows object of the fetched report
    tree,      \* account_tree: the account node {name, id, children}
    sections,  \* gl_sections: the list returned by _parse_gl_rows
    out,       \* the last result computed from (gl_sections, account_tree)
    args,      \* the arguments of the command: args.account, args.customer
    qbo,       \* the company at the server: its accounts and its customers
    stack,     \* the frames of build_children that have not returned
    resolved,  \* (cust_id, cust_name) of the resolved customer, or None
    options,   \* gl_data["Header"]["Option"] of the fetched report
    stderr,    \* the messages written to stderr
    http,      \* the HTTP requests sent so far, in the order they were sent
    client,    \* the locals of the running QBOClient.query
    procs,     \* the locals of each qbo process using the token file
    token_file,\* the tokens stored at TOKENS_PATH
    flock,     \* the holder of the exclusive lock on the lock file, or None
    clock,     \* time.time()
    intuit     \* the token endpoint: the number of tokens it has issued

\* the variables of the resolution of the arguments and of the fetch
cmdvars == <<args, qbo, stack, resolved, options, stderr>>
\* the variables of the REST client and of the token manager
netvars == <<http, client, procs, token_file, flock, clock, intuit>>
vars == <<pc, rows, tree, sections, out, cmdvars, netvars>>

(***************************************************************************)
(* Bounds of the model.                                                    *)
(***************************************************************************)
\* the largest number of rows (Section and Data, at all depths) of a payload
\* given to the parser alone
MaxRows == 4
\* the largest number of rows of a payload given to the report engine
MaxReportRows == 4
\* the largest number of accounts of an account tree
MaxAccounts == 3
\* the largest number of rows of a payload whose sections are looked up
MaxFindRows == 3
\* the largest number of accounts of a tree whose nodes are looked up
MaxFindAccounts == 2
\* the largest number of sections of a section tree that is edited
MaxSections == 3
MaxLedgerRows == 4
\* the largest number of accounts of a company whose tree is built
MaxTreeAccounts == 3
\* the number of frames of build_children the interpreter allows
RecursionLimit == 5
\* the longest label given to _pad_line
MaxLabelLen == 70

(***************************************************************************)
(* Strings.                                                                *)
(***************************************************************************)
S_direct == <<"_", "_", "d", "i", "r", "e", "c", "t", "_", "_">>
S_BeginningBalance ==
    <<"B", "e", "g", "i", "n", "n", "i", "n", "g", " ",
      "B", "a", "l", "a", "n", "c", "e">>

IsSpace(c) == c = " "

RECURSIVE lstrip(_)
lstrip(s) == IF s # <<>> /\ IsSpace(Head(s)) THEN lstrip(Tail(s)) ELSE s

RECURSIVE rstrip(_)
rstrip(s) ==
    IF s # <<>> /\ IsSpace(s[Len(s)]) THEN rstrip(SubSeq(s, 1, Len(s) - 1)) ELSE s

\* str.strip()
strip(s) == rstrip(lstrip(s))

\* str.endswith(suffix)
endswith(s, suffix) ==
    /\ Len(suffix) <= Len(s)
    /\ SubSeq(s, Len(s) - Len(suffix) + 1, Len(s)) = suffix

Digits == <<"0", "1", "2", "3", "4", "5", "6", "7", "8", "9">>
IsDigit(c) == \E i \in 1..10 : Digits[i] = c
DigitVal(c) == (CHOOSE i \in 1..10 : Digits[i] = c) - 1

RECURSIVE DigitsValue(_)
DigitsValue(s) ==
    IF s = <<>> THEN 0
    ELSE 10 * DigitsValue(SubSeq(s, 1, Len(s) - 1)) + DigitVal(s[Len(s)])

\* float(s) on strings over digits, "-", "+", " " and letters: surrounding
\* whitespace is ignored, then an optional sign and one or more digits give
\* the value; anything else raises ValueError (ok = FALSE).
float(s) ==
    LET t == strip(s)
        signed == t # <<>> /\ Head(t) \in {"-", "+"}
        d == IF signed THEN Tail(t) ELSE t
        good == d # <<>> /\ \A i \in 1..Len(d) : IsDigit(d[i])
    IN  IF good
        THEN [ok |-> TRUE,
              val |-> IF signed /\ Head(t) = "-" THEN 0 - DigitsValue(d)
                      ELSE DigitsValue(d)]
        ELSE [ok |-> FALSE, val |-> 0]

(***************************************************************************)
(* The raw report payload.  A cell is a ColData entry {value, id}; a row   *)
(* is {type, Header.ColData, Rows, ColData}; a Rows object is None or a    *)
(* mapping that may hold the key "Row" and may hold other keys.            *)
(***************************************************************************)
Cell(v, i) == [value |-> v, id |-> i]

RowsNone == [kind |-> "None", hasRow |-> FALSE, hasOther |-> FALSE, Row |-> <<>>]
RowsEmptyMap == [kind |-> "Map", hasRow |-> FALSE, hasOther |-> FALSE, Row |-> <<>>]
RowsOtherMap == [kind |-> "Map", hasRow |-> FALSE, hasOther |-> TRUE, Row |-> <<>>]
RowsOf(rs) == [kind |-> "Map", hasRow |-> TRUE, hasOther |-> FALSE, Row |-> rs]

\* Python truthiness of a Rows object: None and the empty mapping are falsy
Truthy(ro) == ro.kind = "Map" /\ (ro.hasRow \/ ro.hasOther)

DataRow(cols) ==
    [type |-> "Data", Header |-> <<>>, Rows |-> RowsEmptyMap, ColData |-> cols]
SectionRow(hdr, ro) ==
    [type |-> "Section", Header |-> hdr, Rows |-> ro, ColData |-> <<>>]

(***************************************************************************)
(* GLTransaction and GLSection.                                            *)
(***************************************************************************)
GLTransaction(date, txn_type, txn_id, num, customer, memo, account, amount) ==
    [date |-> date, txn_type |-> txn_type, txn_id |-> txn_id, num |-> num,
     customer |-> customer, memo |-> memo, account |-> account,
     amount |-> amount]

\* GLSection.__init__
GLSection(name, acct_id) ==
    [name |-> name, id |-> acct_id, direct_amount |-> 0, direct_count |-> 0,
     children |-> <<>>, transactions |-> <<>>]

RECURSIVE SumAmounts(_)
SumAmounts(txns) ==
    IF txns = <<>> THEN 0 ELSE Head(txns).amount + SumAmounts(Tail(txns))

RECURSIVE total_amount(_)
RECURSIVE SumTotalAmount(_)
SumTotalAmount(cs) ==
    IF cs = <<>> THEN 0 ELSE total_amount(Head(cs)) + SumTotalAmount(Tail(cs))
\* total_amount adding only the direct amounts of the children
total_amount_OneLevel(s) ==
    LET Direct[i \in 0..Len(s.children)] ==
            IF i = 0 THEN 0 ELSE s.children[i].direct_amount + Direct[i - 1]
    IN  s.direct_amount + Direct[Len(s.children)]
\* GLSection.total_amount
total_amount(s) == s.direct_amount + SumTotalAmount(s.children)

RECURSIVE total_count(_)
RECURSIVE SumTotalCount(_)
SumTotalCount(cs) ==
    IF cs = <<>> THEN 0 ELSE total_count(Head(cs)) + SumTotalCount(Tail(cs))
\* GLSection.total_count
total_count(s) == s.direct_count + SumTotalCount(s.children)

RECURSIVE all_transactions(_)
RECURSIVE ExtendAll(_)
ExtendAll(cs) ==
    IF cs = <<>> THEN <<>> ELSE all_transactions(Head(cs)) \o ExtendAll(Tail(cs))
\* GLSection.all_transactions
all_transactions(s) == s.transactions \o ExtendAll(s.children)

(***************************************************************************)
(* The GL row parser.                                                      *)
(***************************************************************************)
\* cols[i].get(key, "") if len(cols) > i else ""   (i is 0-based)
ColValue(cols, i) == IF Len(cols) > i THEN cols[i + 1].value ELSE <<>>
ColId(cols, i) == IF Len(cols) > i THEN cols[i + 1].id ELSE <<>>

\* _parse_txn_from_row without the "Beginning Balance" test
_parse_txn_from_row_NoSentinel(cols) ==
    IF cols = <<>> THEN <<>>
    ELSE LET amt_str == ColValue(cols, 6)
         IN  IF amt_str = <<>> THEN <<>>
             ELSE IF ~float(amt_str).ok THEN <<>>
             ELSE <<GLTransaction(ColValue(cols, 0), ColValue(cols, 1),
                                  ColId(cols, 1), ColValue(cols, 2),
                                  ColValue(cols, 3), ColValue(cols, 4),
                                  ColValue(cols, 5), float(amt_str).val)>>

\* _parse_txn_from_row: <<>> for None, <<txn>> for a transaction
_parse_txn_from_row(cols) ==
    IF cols = <<>> \/ cols[1].value = S_BeginningBalance THEN <<>>
    ELSE LET amt_str == ColValue(cols, 6)
         IN  IF amt_str = <<>> THEN <<>>
             ELSE IF ~float(amt_str).ok THEN <<>>
             ELSE <<GLTransaction(ColValue(cols, 0), ColValue(cols, 1),
                                  ColId(cols, 1), ColValue(cols, 2),
                                  ColValue(cols, 3), ColValue(cols, 4),
                                  ColValue(cols, 5), float(amt_str).val)>>

\* the loop "for inner_row in inner_rows['Row']: if type == 'Data': ..."
RECURSIVE ParseDataRows(_)
ParseDataRows(rs) ==
    IF rs = <<>> THEN <<>>
    ELSE (IF Head(rs).type = "Data" THEN _parse_txn_from_row(Head(rs).ColData)
          ELSE <<>>) \o ParseDataRows(Tail(rs))

\* the transactions of the direct Data rows of a Section row
DirectTxns(row) ==
    IF Truthy(row.Rows) /\ row.Rows.hasRow THEN ParseDataRows(row.Rows.Row)
    ELSE <<>>

\* header_cols[0].get("value", "").strip() if header_cols else ""
HeaderName(row) == IF row.Header # <<>> THEN strip(row.Header[1].value) ELSE <<>>
HeaderId(row) == IF row.Header # <<>> THEN row.Header[1].id ELSE <<>>

RECURSIVE SumDirectAmount(_)
SumDirectAmount(ss) ==
    IF ss = <<>> THEN 0 ELSE Head(ss).direct_amount + SumDirectAmount(Tail(ss))
\* the absorption counting the absorbed sections, not their transactions
SumDirectCount_Sections(ss) == Len(ss)
RECURSIVE SumDirectCount(_)
SumDirectCount(ss) ==
    IF ss = <<>> THEN 0 ELSE Head(ss).direct_count + SumDirectCount(Tail(ss))
RECURSIVE ExtendTransactions(_)
ExtendTransactions(ss) ==
    IF ss = <<>> THEN <<>>
    ELSE Head(ss).transactions \o ExtendTransactions(Tail(ss))

IsDirect(c) == c.name = S_direct
NotDirect(c) == c.name # S_direct

\* Absorb that leaves in place a placeholder that carries no transaction
Absorb_KeepsEmpty(section, kids) ==
    LET absorbed == SelectSeq(kids, IsDirect)
        Stays(c) == c.name # S_direct \/ c.direct_count = 0
    IN  [section EXCEPT
            !.direct_amount = @ + SumDirectAmount(absorbed),
            !.direct_count = @ + SumDirectCount(absorbed),
            !.transactions = @ \o ExtendTransactions(absorbed),
            !.children = SelectSeq(kids, Stays)]

\* the absorption step of _parse_gl_rows, applied to a named section whose
\* own Data rows are parsed and whose children are kids
Absorb(section, kids) ==
    LET absorbed == SelectSeq(kids, IsDirect)
    IN  [section EXCEPT
            !.direct_amount = @ + SumDirectAmount(absorbed),
            !.direct_count = @ + SumDirectCount(absorbed),
            !.transactions = @ \o ExtendTransactions(absorbed),
            !.children = SelectSeq(kids, NotDirect)]

RECURSIVE _parse_gl_rows(_)
RECURSIVE ParseRowList(_)

\* one iteration of "for row in rows_obj['Row']": the sections it appends
ParseRow(row) ==
    IF row.type # "Section" THEN <<>>
    ELSE LET name == HeaderName(row)
             acct_id == HeaderId(row)
             txns == DirectTxns(row)
             own == [GLSection(IF name = <<>> THEN S_direct ELSE name, acct_id)
                        EXCEPT !.direct_amount = SumAmounts(txns),
                               !.direct_count = Len(txns),
                               !.transactions = txns]
         IN  IF name = <<>> THEN <<own>>
             ELSE <<Absorb(own, _parse_gl_rows(row.Rows))>>

ParseRowList(rs) ==
    IF rs = <<>> THEN <<>> ELSE ParseRow(Head(rs)) \o ParseRowList(Tail(rs))

\* _parse_gl_rows answering a Rows object without rows with a placeholder
_parse_gl_rows_Placeholder(rows_obj) ==
    IF ~Truthy(rows_obj) \/ ~rows_obj.hasRow THEN <<GLSection(S_direct, <<>>)>>
    ELSE IF rows_obj.Row = <<>> THEN <<GLSection(S_direct, <<>>)>>
    ELSE ParseRowList(rows_obj.Row)
_parse_gl_rows(rows_obj) ==
    IF ~Truthy(rows_obj) \/ ~rows_obj.hasRow THEN <<>>
    ELSE ParseRowList(rows_obj.Row)

(***************************************************************************)
(* Section lookup and the subtotal engine.                                 *)
(***************************************************************************)
None == <<>>

RECURSIVE _find_gl_section(_, _)
\* _find_gl_section: <<>> for None, <<section>> for a section; pre-order,
\* the first section whose name is the name or ends with " " + name
_find_gl_section(ss, name) ==
    IF ss = <<>> THEN None
    ELSE LET s == Head(ss)
         IN  IF s.name = name \/ endswith(s.name, <<" ">> \o name) THEN <<s>>
             ELSE LET found == _find_gl_section(s.children, name)
                  IN  IF found # None THEN found
                      ELSE _find_gl_section(Tail(ss), name)

\* the loop of _compute_subtotal adding nothing for the children
SubtotalOfChildren_None(gl_sections, cs) == <<0, 0>>
RECURSIVE _compute_subtotal(_, _)
RECURSIVE SubtotalOfChildren(_, _)
\* the loop "for child in node['children']" of _compute_subtotal
SubtotalOfChildren(gl_sections, cs) ==
    IF cs = <<>> THEN <<0, 0>>
    ELSE LET c == _compute_subtotal(gl_sections, Head(cs))
             r == SubtotalOfChildren(gl_sections, Tail(cs))
         IN  <<c[1] + r[1], c[2] + r[2]>>

\* _compute_subtotal taking the total of the own section of a node with children
_compute_subtotal_OwnTotal(gl_sections, node) ==
    LET section == _find_gl_section(gl_sections, node.name)
        r == SubtotalOfChildren(gl_sections, node.children)
    IN  IF section # None
        THEN <<total_amount(section[1]) + r[1], total_count(section[1]) + r[2]>>
        ELSE r
\* _compute_subtotal: <<amount, count>>
_compute_subtotal(gl_sections, node) ==
    LET section == _find_gl_section(gl_sections, node.name)
    IN  IF node.children = <<>>
        THEN IF section # None
             THEN <<total_amount(section[1]), total_count(section[1])>>
             ELSE <<0, 0>>
        ELSE LET r == SubtotalOfChildren(gl_sections, node.children)
             IN  <<(IF section # None THEN section[1].direct_amount ELSE 0) + r[1],
                   (IF section # None THEN section[1].direct_count ELSE 0) + r[2]>>

(***************************************************************************)
(* Text layout.                                                            *)
(***************************************************************************)
REPORT_WIDTH == 72

Spaces(n) == [i \in 1..n |-> " "]

\* the characters of the model in code-point order, for str comparison
CodeOrder ==
    <<" ", "$", "(", ")", ",", "-", ".",
      "0", "1", "2", "3", "4", "5", "6", "7", "8", "9",
      "A", "B", "C", "I", "T", "X", "_", "a", "c", "d", "e", "f", "g", "i", "l",
      "n", "o", "r", "t">>
Ord(c) == CHOOSE i \in 1..Len(CodeOrder) : CodeOrder[i] = c

RECURSIVE StrLess(_, _)
\* a < b on str
StrLess(a, b) ==
    IF b = <<>> THEN FALSE
    ELSE IF a = <<>> THEN TRUE
    ELSE IF Head(a) # Head(b) THEN Ord(Head(a)) < Ord(Head(b))
    ELSE StrLess(Tail(a), Tail(b))

RECURSIVE str(_)
\* str(n) of an integer n >= 0
str(n) == IF n < 10 THEN <<Digits[n + 1]>> ELSE str(n \div 10) \o <<Digits[(n % 10) + 1]>>

RECURSIVE Grouped(_)
\* the digits of n >= 0 with "," between groups of three: format(n, ",")
Grouped(n) ==
    IF n < 1000 THEN str(n)
    ELSE Grouped(n \div 1000) \o <<",">>
         \o <<Digits[((n \div 100) % 10) + 1], Digits[((n \div 10) % 10) + 1],
              Digits[(n % 10) + 1]>>

\* f"{x:,.2f}" of a whole number x >= 0
Fixed2(x) == Grouped(x) \o <<".", "0", "0">>

_format_amount(amount, currency) ==
    IF amount < 0 THEN <<"-">> \o currency \o Fixed2(0 - amount)
    ELSE currency \o Fixed2(amount)

\* _pad_line without the one space it always leaves
_pad_line_NoMinimum(label, amt_str, prefix) ==
    LET total_len == Len(prefix) + Len(label) + Len(amt_str)
    IN  prefix \o label \o Spaces(REPORT_WIDTH - total_len) \o amt_str
_pad_line(label, amt_str, prefix) ==
    LET total_len == Len(prefix) + Len(label) + Len(amt_str)
        pad == IF REPORT_WIDTH - total_len > 1 THEN REPORT_WIDTH - total_len ELSE 1
    IN  prefix \o label \o Spaces(pad) \o amt_str

RECURSIVE InsertByDate(_, _)
\* t put after the last transaction whose date is not greater than its own
InsertByDate(sorted, t) ==
    IF sorted = <<>> THEN <<t>>
    ELSE IF StrLess(t.date, Head(sorted).date) THEN <<t>> \o sorted
    ELSE <<Head(sorted)>> \o InsertByDate(Tail(sorted), t)

\* the transactions left in the order of the list
SortedByDate_Unsorted(txns) == txns
RECURSIVE SortedByDate(_)
\* sorted(txns, key=lambda x: x.date): stable
SortedByDate(txns) ==
    IF txns = <<>> THEN <<>>
    ELSE InsertByDate(SortedByDate(SubSeq(txns, 1, Len(txns) - 1)), txns[Len(txns)])

\* f"{s:<12s}"
LJust(s, w) == IF Len(s) >= w THEN s ELSE s \o Spaces(w - Len(s))

\* one line of _append_txn_lines
TxnLine(t, currency, indent) ==
    LET prefix == Spaces(2 * indent)
        memo == IF Len(t.memo) > 40 THEN SubSeq(t.memo, 1, 40) \o <<"...">> ELSE t.memo
        label == t.date \o <<" ", " ">> \o LJust(t.txn_type, 12) \o <<" ">> \o memo
    IN  _pad_line(label, _format_amount(t.amount, currency), prefix)

\* _append_txn_lines: the lines after the call
_append_txn_lines(txns, currency, indent, lines) ==
    LET st == SortedByDate(txns)
    IN  lines \o [i \in 1..Len(st) |-> TxnLine(st[i], currency, indent)]

S_TotalFor == <<"T", "o", "t", "a", "l", " ", "f", "o", "r", " ">>
CountLabel(name, cnt) == name \o <<" ", "(">> \o str(cnt) \o <<")">>

\* the test "cnt == 0 and amt == 0.0" taken as "amt == 0.0" alone
NothingToShow_AmountOnly(amt, cnt) == amt = 0
\* "cnt == 0 and amt == 0.0": the node is left out of the report
NothingToShow(amt, cnt) == cnt = 0 /\ amt = 0

RECURSIVE _build_report_lines(_, _, _, _, _, _)
RECURSIVE BuildChildren(_, _, _, _, _, _)
\* the loop over the children taken from the last child to the first
BuildChildren_Reversed(gl_sections, cs, currency, indent, lines, expanded) ==
    IF cs = <<>> THEN lines
    ELSE _build_report_lines(gl_sections, Head(cs), currency, indent,
                             BuildChildren(gl_sections, Tail(cs), currency, indent,
                                           lines, expanded),
                             expanded)
\* the loop "for child in node['children']" of _build_report_lines
BuildChildren(gl_sections, cs, currency, indent, lines, expanded) ==
    IF cs = <<>> THEN lines
    ELSE BuildChildren(gl_sections, Tail(cs), currency, indent,
                       _build_report_lines(gl_sections, Head(cs), currency,
                                           indent, lines, expanded),
                       expanded)

\* _build_report_lines: the list lines after the call
_build_report_lines(gl_sections, node, currency, indent, lines, expanded) ==
    LET prefix == Spaces(2 * indent)
        subtotal == _compute_subtotal(gl_sections, node)
        section == _find_gl_section(gl_sections, node.name)
    IN  IF node.children = <<>>
        THEN LET amt == IF section # None THEN total_amount(section[1]) ELSE 0
                 cnt == IF section # None THEN total_count(section[1]) ELSE 0
                 l1 == Append(lines, _pad_line(CountLabel(node.name, cnt),
                                               _format_amount(amt, currency), prefix))
             IN  IF NothingToShow(amt, cnt) THEN lines
                 ELSE IF expanded /\ section # None
                 THEN _append_txn_lines(all_transactions(section[1]), currency,
                                        indent + 1, l1)
                 ELSE l1
        ELSE IF NothingToShow(subtotal[1], subtotal[2]) THEN lines
        ELSE LET own_cnt == IF section # None THEN section[1].direct_count ELSE 0
                 own_amt == IF section # None THEN section[1].direct_amount ELSE 0
                 l1 == IF own_cnt > 0
                       THEN LET l0 == Append(lines,
                                        _pad_line(CountLabel(node.name, own_cnt),
                                                  _format_amount(own_amt, currency),
                                                  prefix))
                            IN  IF expanded /\ section # None
                                THEN _append_txn_lines(section[1].transactions,
                                                       currency, indent + 1, l0)
                                ELSE l0
                       ELSE Append(lines, prefix \o node.name)
                 l2 == BuildChildren(gl_sections, node.children, currency,
                                     indent + 1, l1, expanded)
             IN  Append(l2, _pad_line(S_TotalFor \o node.name,
                                      _format_amount(subtotal[1], currency), prefix))

(***************************************************************************)
(* The flat transaction ledger and the by-customer report.                 *)
(***************************************************************************)
S_NoTransactions == <<"(", "n", "o", " ", "t", "r", "a", "n", "s", "a", "c", "t", "i", "o", "n", "s", ")">>
S_NoCustomer == <<"(", "n", "o", " ", "c", "u", "s", "t", "o", "m", "e", "r", ")">>
S_TOTAL == <<"T", "O", "T", "A", "L">>
\* "─" * REPORT_WIDTH; the element "--" stands for the character U+2500
Rule == [i \in 1..REPORT_WIDTH |-> "--"]

\* f"{s:>14s}"
RJust(s, w) == IF Len(s) >= w THEN s ELSE Spaces(w - Len(s)) \o s

RECURSIVE AfterLastColon(_)
\* s.split(":")[-1]
AfterLastColon(s) ==
    IF \A i \in 1..Len(s) : s[i] # ":" THEN s
    ELSE AfterLastColon(Tail(s))

\* the header line of the ledger
TxnsHeader ==
    LJust(<<"D", "a", "t", "e">>, 12) \o <<" ">> \o LJust(<<"T", "y", "p", "e">>, 14) \o <<" ">>
    \o RJust(<<"A", "m", "o", "u", "n", "t">>, 14) \o <<" ", " ">> \o <<"A", "c", "c", "o", "u", "n", "t">>

\* the line of a transaction in the ledger
TxnsRow(t, currency) ==
    LET acct_short == IF t.account # <<>> THEN AfterLastColon(t.account) ELSE <<>>
        amt_str == _format_amount(t.amount, currency)
    IN  LJust(t.date, 12) \o <<" ">> \o LJust(t.txn_type, 14) \o <<" ">>
        \o RJust(amt_str, 14) \o <<" ", " ">> \o acct_short

\* the continuation line of a transaction with a memo
MemoRow(t) ==
    LET memo == IF Len(t.memo) > 68 THEN SubSeq(t.memo, 1, 68) \o <<"...">>
                ELSE t.memo
    IN  Spaces(12) \o <<" ">> \o memo

RECURSIVE TxnsRows(_, _)
\* the loop "for t in txns" of _build_txns_report
TxnsRows(txns, currency) ==
    IF txns = <<>> THEN <<>>
    ELSE LET t == Head(txns)
         IN  <<TxnsRow(t, currency)>>
             \o (IF t.memo # <<>> THEN <<MemoRow(t)>> ELSE <<>>)
             \o TxnsRows(Tail(txns), currency)

\* the footer of the ledger
TxnsFooter(total, n, currency) ==
    LJust(S_TOTAL, 12) \o <<" ">> \o Spaces(14) \o <<" ">>
    \o RJust(_format_amount(total, currency), 14)
    \o <<" ", " ", "(">> \o str(n) \o <<" ">> \o <<"t", "r", "a", "n", "s", "a", "c", "t", "i", "o", "n", "s", ")">>

\* _build_txns_report listing the own transactions of the section only
_build_txns_report_DirectOnly(gl_sections, node, currency) ==
    LET section == _find_gl_section(gl_sections, node.name)
    IN  IF section = None \/ section[1].transactions = <<>> THEN <<S_NoTransactions>>
        ELSE LET txns == SortedByDate(section[1].transactions)
             IN  <<TxnsHeader, Rule>> \o TxnsRows(txns, currency)
                 \o <<Rule, TxnsFooter(SumAmounts(txns), Len(txns), currency)>>
_build_txns_report(gl_sections, node, currency) ==
    LET section == _find_gl_section(gl_sections, node.name)
    IN  IF section = None THEN <<S_NoTransactions>>
        ELSE IF all_transactions(section[1]) = <<>> THEN <<S_NoTransactions>>
        ELSE LET txns == SortedByDate(all_transactions(section[1]))
             IN  <<TxnsHeader, Rule>> \o TxnsRows(txns, currency)
                 \o <<Rule, TxnsFooter(SumAmounts(txns), Len(txns), currency)>>

Abs(x) == IF x < 0 THEN 0 - x ELSE x

\* cust = t.customer or "(no customer)"
CustKey(t) == IF t.customer # <<>> THEN t.customer ELSE S_NoCustomer

\* groups[cust]
GroupOf(txns, cust) == SelectSeq(txns, LAMBDA t : CustKey(t) = cust)

RECURSIVE GroupKeys(_, _)
\* groups.keys(): the customers in the order of their first transaction
GroupKeys(txns, keys) ==
    IF txns = <<>> THEN keys
    ELSE LET cust == CustKey(Head(txns))
         IN  GroupKeys(Tail(txns),
                       IF \E i \in 1..Len(keys) : keys[i] = cust THEN keys
                       ELSE Append(keys, cust))

\* key=lambda c: abs(sum(t.amount for t in groups[c]))
AbsTotal(txns, cust) == Abs(SumAmounts(GroupOf(txns, cust)))

RECURSIVE InsertByAbsTotal(_, _, _)
\* cust put after the last customer whose key is not smaller than its own
InsertByAbsTotal(sorted, cust, txns) ==
    IF sorted = <<>> THEN <<cust>>
    ELSE IF AbsTotal(txns, Head(sorted)) >= AbsTotal(txns, cust)
         THEN <<Head(sorted)>> \o InsertByAbsTotal(Tail(sorted), cust, txns)
         ELSE <<cust>> \o sorted

RECURSIVE SortCusts(_, _, _)
SortCusts(keys, sorted, txns) ==
    IF keys = <<>> THEN sorted
    ELSE SortCusts(Tail(keys), InsertByAbsTotal(sorted, Head(keys), txns), txns)

\* sorted(groups.keys()) in the order of the first transactions
sorted_custs_Unsorted(txns) == GroupKeys(txns, <<>>)
\* sorted(groups.keys(), key=..., reverse=True), a stable sort
sorted_custs(txns) == SortCusts(GroupKeys(txns, <<>>), <<>>, txns)

\* f"{label} ({n})"
Counted(label, n) == label \o <<" ", "(">> \o str(n) \o <<")">>

\* the line of a customer in the by-customer report
CustLine(txns, cust, currency) ==
    LET ctxns == GroupOf(txns, cust)
    IN  _pad_line(Counted(cust, Len(ctxns)),
                  _format_amount(SumAmounts(ctxns), currency), <<>>)

_build_by_customer_report(gl_sections, node, currency) ==
    LET section == _find_gl_section(gl_sections, node.name)
    IN  IF section = None THEN <<S_NoTransactions>>
        ELSE IF all_transactions(section[1]) = <<>> THEN <<S_NoTransactions>>
        ELSE LET txns == all_transactions(section[1])
                 custs == sorted_custs(txns)
             IN  <<node.name, <<>>>>
                 \o [i \in 1..Len(custs) |-> CustLine(txns, custs[i], currency)]
                 \o << <<>>,
                       _pad_line(Counted(S_TOTAL, Len(txns)),
                                 _format_amount(SumAmounts(txns), currency), <<>>) >>

(***************************************************************************)
(* The date range of the title: _format_date_range.                        *)
(***************************************************************************)
\* calendar.isleap
IsLeap(y) == (y % 4 = 0 /\ y % 100 # 0) \/ y % 400 = 0
\* the number of days of month m of year y
DaysIn(y, m) ==
    IF m = 2 THEN (IF IsLeap(y) THEN 29 ELSE 28)
    ELSE IF m \in {4, 6, 9, 11} THEN 30 ELSE 31

\* datetime.strptime(s, "%Y-%m-%d") on a string of the form dddd-dd-dd:
\* year, month and day, or ValueError (ok = FALSE) when the string has
\* another form or names no day of the calendar
strptime(s) ==
    LET shaped == /\ Len(s) = 10
                  /\ s[5] = "-" /\ s[8] = "-"
                  /\ \A i \in {1, 2, 3, 4, 6, 7, 9, 10} : IsDigit(s[i])
        y == DigitsValue(SubSeq(s, 1, 4))
        m == DigitsValue(SubSeq(s, 6, 7))
        d == DigitsValue(SubSeq(s, 9, 10))
    IN  IF shaped /\ y >= 1 /\ m \in 1..12 /\ d >= 1 /\ d <= DaysIn(y, m)
        THEN [ok |-> TRUE, year |-> y, month |-> m, day |-> d]
        ELSE [ok |-> FALSE, year |-> 0, month |-> 0, day |-> 0]

\* strftime("%B")
MonthNames ==
    << <<"J", "a", "n", "u", "a", "r", "y">>,
       <<"F", "e", "b", "r", "u", "a", "r", "y">>,
       <<"M", "a", "r", "c", "h">>,
       <<"A", "p", "r", "i", "l">>,
       <<"M", "a", "y">>,
       <<"J", "u", "n", "e">>,
       <<"J", "u", "l", "y">>,
       <<"A", "u", "g", "u", "s", "t">>,
       <<"S", "e", "p", "t", "e", "m", "b", "e", "r">>,
       <<"O", "c", "t", "o", "b", "e", "r">>,
       <<"N", "o", "v", "e", "m", "b", "e", "r">>,
       <<"D", "e", "c", "e", "m", "b", "e", "r">> >>

\* _format_date_range comparing the months only
_format_date_range_MonthOnly(start, end) ==
    LET s == strptime(start)
        e == strptime(end)
    IN  IF ~s.ok \/ ~e.ok THEN [ok |-> FALSE, text |-> <<>>]
        ELSE IF s.month = e.month
        THEN [ok |-> TRUE,
              text |-> MonthNames[s.month] \o <<",", " ">> \o str(s.year)]
        ELSE [ok |-> TRUE,
              text |-> MonthNames[s.month] \o <<"-">> \o MonthNames[e.month]
                       \o <<",", " ">> \o str(s.year)]
\* _format_date_range(start, end): the text, or ValueError (ok = FALSE)
_format_date_range(start, end) ==
    LET s == strptime(start)
        e == strptime(end)
    IN  IF ~s.ok \/ ~e.ok THEN [ok |-> FALSE, text |-> <<>>]
        ELSE IF s.month = e.month /\ s.year = e.year
        THEN [ok |-> TRUE,
              text |-> MonthNames[s.month] \o <<",", " ">> \o str(s.year)]
        ELSE IF s.year = e.year
        THEN [ok |-> TRUE,
              text |-> MonthNames[s.month] \o <<"-">> \o MonthNames[e.month]
                       \o <<",", " ">> \o str(s.year)]
        ELSE [ok |-> TRUE,
              text |-> MonthNames[s.month] \o <<" ">> \o str(s.year) \o <<"-">>
                       \o MonthNames[e.month] \o <<" ">> \o str(e.year)]

(***************************************************************************)
(* Payloads: every forest of at most MaxRows rows over the pools below.    *)
(***************************************************************************)
D1 == <<"2", "0", "2", "5", "-", "0", "1", "-", "0", "1">>
D2 == <<"2", "0", "2", "5", "-", "0", "1", "-", "0", "2">>

Cols7(date, cust, amt) ==
    <<Cell(date, <<>>), Cell(<<"I">>, <<"7">>), Cell(<<>>, <<>>),
      Cell(cust, <<>>), Cell(<<>>, <<>>), Cell(<<"A">>, <<>>), Cell(amt, <<>>)>>

\* the ColData of the Data rows: two well-formed rows, then the malformed
ParseDataPool ==
    << Cols7(D2, <<"X">>, <<"5">>),
       Cols7(D1, <<>>, <<"-", "5">>),
       <<>>,
       <<Cell(D1, <<>>), Cell(<<"I">>, <<"7">>)>>,
       Cols7(S_BeginningBalance, <<>>, <<"5">>),
       Cols7(D1, <<>>, <<>>),
       Cols7(D1, <<>>, <<"x">>) >>
\* the Header.ColData of the Section rows
ParseHeaderPool ==
    << <<>>,
       <<Cell(<<" ">>, <<"9">>)>>,
       <<Cell(<<" ", "A", " ">>, <<"1">>)>>,
       <<Cell(S_direct, <<"3">>)>> >>

\* A payload is enumerated from a flat encoding: n rows numbered in
\* pre-order, par[i] the number of the row that holds row i (0: top level)
\* and lab[i] an index into the pool of row kinds (Data rows first, then
\* the Section headers).
RECURSIVE NthAncestor(_, _, _)
NthAncestor(par, i, k) ==
    IF k = 0 \/ i = 0 THEN i ELSE NthAncestor(par, par[i], k - 1)

ValidShape(n, par) ==
    \A i \in 1..n :
        /\ par[i] < i
        /\ i > 1 /\ par[i] # i - 1 =>
              \* row i closes rows: it hangs off an ancestor of row i-1
              \E k \in 1..n :
                  par[i] = NthAncestor(par, i - 1, k)

Shapes(n) == {par \in [1..n -> 0..n] : ValidShape(n, par)}

HasChild(n, par, i) == \E j \in 1..n : par[j] = i

RECURSIVE LabelVecs(_, _, _, _, _)
\* the labellings of rows 1..m: a row that holds rows is a Section; a Data
\* row at the top level is skipped unread, so one kind of it is enough
LabelVecs(n, par, m, nData, nHdr) ==
    IF m = 0 THEN {<<>>}
    ELSE { Append(v, x) :
             v \in LabelVecs(n, par, m - 1, nData, nHdr),
             x \in ((nData + 1)..(nData + nHdr))
                   \cup (IF HasChild(n, par, m) THEN {}
                         ELSE IF par[m] = 0 THEN {1} ELSE 1..nData) }

Kids(n, par, i) == SelectSeq([j \in 1..n |-> j], LAMBDA j : par[j] = i)

RECURSIVE BuildRow(_, _, _, _, _, _)
RECURSIVE BuildRows(_, _, _, _, _, _)
BuildRows(n, par, lab, dataPool, hdrPool, js) ==
    IF js = <<>> THEN <<>>
    ELSE <<BuildRow(n, par, lab, dataPool, hdrPool, Head(js))>>
         \o BuildRows(n, par, lab, dataPool, hdrPool, Tail(js))
BuildRow(n, par, lab, dataPool, hdrPool, i) ==
    IF lab[i] <= Len(dataPool) THEN DataRow(dataPool[lab[i]])
    ELSE SectionRow(hdrPool[lab[i] - Len(dataPool)],
                    IF Kids(n, par, i) = <<>> THEN RowsEmptyMap
                    ELSE RowsOf(BuildRows(n, par, lab, dataPool, hdrPool,
                                          Kids(n, par, i))))

\* rows is a payload of at most maxRows rows over the pools
IsPayload(r, maxRows, dataPool, hdrPool) ==
    \/ r \in {RowsNone, RowsEmptyMap, RowsOtherMap}
    \/ \E n \in 0..maxRows : \E par \in Shapes(n) :
         \E lab \in LabelVecs(n, par, n, Len(dataPool), Len(hdrPool)) :
            r = RowsOf(BuildRows(n, par, lab, dataPool, hdrPool,
                                 Kids(n, par, 0)))

NoTree == [name |-> <<>>, id |-> <<>>, children |-> <<>>]
NoOut == [op |-> "none"]
\* gl_data before the report is fetched
NotFetched == [kind |-> "NotFetched", hasRow |-> FALSE, hasOther |-> FALSE, Row |-> <<>>]
\* the report engine alone: the arguments were resolved before
NoArgs == [account |-> <<>>, customer |-> <<>>]
NoCompany == [accounts |-> <<>>, customers |-> <<>>]
\* no request is sent and no token is read: the data is already in memory
NoNetwork ==
    /\ http = <<>>
    /\ client = <<>>
    /\ procs = <<>>
    /\ token_file = <<>>
    /\ flock = <<>>
    /\ clock = 0
    /\ intuit = 0
NoCommand ==
    /\ NoNetwork
    /\ args = NoArgs
    /\ qbo = NoCompany
    /\ stack = <<>>
    /\ resolved = <<>>
    /\ options = <<>>
    /\ stderr = <<>>

(***************************************************************************)
(* The parser alone: the report was fetched, _parse_gl_rows runs.          *)
(***************************************************************************)
Parse ==
    /\ pc = "fetched"
    /\ sections' = _parse_gl_rows(rows)
    /\ pc' = "parsed"
    /\ UNCHANGED <<rows, tree, out, cmdvars, netvars>>

InitParse ==
    /\ pc = "fetched"
    /\ IsPayload(rows, MaxRows, ParseDataPool, ParseHeaderPool)
    /\ tree = NoTree
    /\ sections = <<>>
    /\ out = NoOut
    /\ NoCommand

NextParse == Parse

SpecParse == InitParse /\ [][NextParse]_vars

(***************************************************************************)
(* The report engine: the report was fetched and the account tree built;   *)
(* _parse_gl_rows runs, then the subtotal and the renderers are applied to *)
(* (gl_sections, account_tree).                                            *)
(***************************************************************************)
\* the ColData of the Data rows of a report
ReportDataPool ==
    << Cols7(D2, <<"X">>, <<"5">>), Cols7(D1, <<>>, <<"-", "5">>) >>
\* the Header.ColData of the Section rows of a report
ReportHeaderPool ==
    << <<Cell(<<"A">>, <<"1">>)>>, <<Cell(<<"B">>, <<"2">>)>> >>
\* the accounts (Name, Id) of the company
AccountPool ==
    << [name |-> <<"A">>, id |-> <<"1">>], [name |-> <<"B">>, id |-> <<"2">>],
       [name |-> <<"C">>, id |-> <<"3">>] >>
Currencies == {<<>>, <<"$">>}

\* the GL report of the tests: "Revenue" (id 100) holds one journal entry of
\* -500 and the sections "Consulting Revenue" (id 101, three transactions
\* summing to 15700) and "Product Revenue" (id 102, one transaction of 12000)
S_Revenue == <<"R", "e", "v", "e", "n", "u", "e">>
S_ConsultingRevenue == <<"C", "o", "n", "s", "u", "l", "t", "i", "n", "g", " ", "R", "e", "v", "e", "n", "u", "e">>
S_ProductRevenue == <<"P", "r", "o", "d", "u", "c", "t", " ", "R", "e", "v", "e", "n", "u", "e">>
gl_report_nested ==
    RowsOf(<<SectionRow(<<Cell(S_Revenue, <<"1", "0", "0">>)>>, RowsOf(<<
        DataRow(Cols7(D1, <<>>, <<"-", "5", "0", "0">>)),
        SectionRow(<<Cell(S_ConsultingRevenue, <<"1", "0", "1">>)>>, RowsOf(<<
            DataRow(Cols7(D1, <<"X">>, <<"5", "0", "0", "0">>)),
            DataRow(Cols7(D2, <<"X">>, <<"7", "5", "0", "0">>)),
            DataRow(Cols7(D2, <<>>, <<"3", "2", "0", "0">>))>>)),
        SectionRow(<<Cell(S_ProductRevenue, <<"1", "0", "2">>)>>, RowsOf(<<
            DataRow(Cols7(D2, <<"X">>, <<"1", "2", "0", "0", "0">>))>>))>>))>>)
\* the account node of test_parent_with_children
RevenueNode ==
    [name |-> S_Revenue, id |-> <<"1", "0", "0">>, children |->
        <<[name |-> S_ConsultingRevenue, id |-> <<"1", "0", "1">>, children |-> <<>>],
          [name |-> S_ProductRevenue, id |-> <<"1", "0", "2">>, children |-> <<>>]>>]

RECURSIVE BuildNodes(_, _, _, _, _)
\* the account nodes numbered js: {"name", "id", "children"}
BuildNodes(n, par, lab, pool, js) ==
    IF js = <<>> THEN <<>>
    ELSE <<[name |-> pool[lab[Head(js)]].name, id |-> pool[lab[Head(js)]].id,
            children |-> BuildNodes(n, par, lab, pool, Kids(n, par, Head(js)))]>>
         \o BuildNodes(n, par, lab, pool, Tail(js))

\* kids.sort(key=lambda x: x["name"]): the children of every node are in
\* ascending order of name
SortedKids(n, par, lab, pool) ==
    \A i \in 1..n :
        LET ks == Kids(n, par, i)
        IN  \A k \in 1..(Len(ks) - 1) :
                ~StrLess(pool[lab[ks[k + 1]]].name, pool[lab[ks[k]]].name)

\* t is an account tree of at most maxN accounts of the pool, every account
\* at most once
IsAccountTree(t, maxN, pool) ==
    \E n \in 1..maxN : \E par \in Shapes(n) : \E lab \in [1..n -> 1..Len(pool)] :
        /\ \A i \in 2..n : par[i] # 0
        /\ \A i, j \in 1..n : lab[i] = lab[j] => i = j
        /\ SortedKids(n, par, lab, pool)
        /\ t = BuildNodes(n, par, lab, pool, <<1>>)[1]

RECURSIVE NodesOf(_)
\* the nodes of an account tree
NodesOf(node) ==
    {node} \cup UNION {NodesOf(node.children[i]) : i \in 1..Len(node.children)}

\* _compute_subtotal(gl_sections, account_tree)
ComputeSubtotal ==
    /\ pc = "parsed"
    /\ out' = [op |-> "subtotal", subtotal |-> _compute_subtotal(sections, tree)]
    /\ pc' = "done"
    /\ UNCHANGED <<rows, tree, sections, cmdvars, netvars>>

\* _build_report_lines(gl_sections, account_tree, currency, expanded=...)
BuildReportLines ==
    /\ pc = "parsed"
    /\ \E currency \in Currencies, expanded \in BOOLEAN :
         out' = [op |-> "lines", currency |-> currency, expanded |-> expanded,
                 lines |-> _build_report_lines(sections, tree, currency, 0, <<>>,
                                               expanded)]
    /\ pc' = "done"
    /\ UNCHANGED <<rows, tree, sections, cmdvars, netvars>>

Init ==
    /\ pc = "fetched"
    /\ \/ /\ IsPayload(rows, MaxReportRows, ReportDataPool, ReportHeaderPool)
          /\ IsAccountTree(tree, MaxAccounts, AccountPool)
       \/ /\ rows = gl_report_nested
          /\ tree = RevenueNode
    /\ sections = <<>>
    /\ out = NoOut
    /\ NoCommand

Next == Parse \/ ComputeSubtotal \/ BuildReportLines

Spec == Init /\ [][Next]_vars

(***************************************************************************)
(* The ledgers: the report was fetched for one account; _parse_gl_rows     *)
(* runs, then the flat ledger or the by-customer report of the account is  *)
(* built.                                                                  *)
(***************************************************************************)
ColsLedger(date, cust, memo, account, amt) ==
    <<Cell(date, <<>>), Cell(<<"I">>, <<"7">>), Cell(<<>>, <<>>),
      Cell(cust, <<>>), Cell(memo, <<>>), Cell(account, <<>>), Cell(amt, <<>>)>>
\* a memo of 69 characters
LongMemo == [i \in 1..69 |-> "m"]
\* the ColData of the Data rows of a ledger
LedgerDataPool ==
    << ColsLedger(D2, <<"X">>, <<"m">>, <<"P", ":", "A">>, <<"5">>),
       ColsLedger(D1, <<>>, <<>>, <<"A">>, <<"-", "5">>),
       ColsLedger(D1, <<"Y">>, <<>>, <<>>, <<"7">>),
       ColsLedger(D2, <<"X">>, LongMemo, <<"A">>, <<"-", "7">>) >>

\* lines = _build_txns_report(gl_sections, account_tree, currency)
BuildTxnsReport ==
    /\ pc = "parsed"
    /\ \E currency \in Currencies :
         out' = [op |-> "txns", currency |-> currency,
                 lines |-> _build_txns_report(sections, tree, currency)]
    /\ pc' = "done"
    /\ UNCHANGED <<rows, tree, sections, cmdvars, netvars>>

\* lines = _build_by_customer_report(gl_sections, account_tree, currency)
BuildByCustomerReport ==
    /\ pc = "parsed"
    /\ \E currency \in Currencies :
         out' = [op |-> "by_customer", currency |-> currency,
                 lines |-> _build_by_customer_report(sections, tree, currency)]
    /\ pc' = "done"
    /\ UNCHANGED <<rows, tree, sections, cmdvars, netvars>>

InitLedger ==
    /\ pc = "fetched"
    /\ IsPayload(rows, MaxLedgerRows, LedgerDataPool, ReportHeaderPool)
    /\ IsAccountTree(tree, 1, AccountPool)
    /\ sections = <<>>
    /\ out = NoOut
    /\ NoCommand

NextLedger == Parse \/ BuildTxnsReport \/ BuildByCustomerReport

SpecLedger == InitLedger /\ [][NextLedger]_vars

(***************************************************************************)
(* The account tree builder: build_children of _discover_account_tree,     *)
(* one step per iteration of its loop, per call and per return.  A frame   *)
(* holds the argument pid, the index i of the account the loop is at, and  *)
(* the list kids built so far.                                             *)
(***************************************************************************)
\* an account of the Account query: Id, Name, FullyQualifiedName (at most
\* one) and ParentRef (the id of the parent, at most one)
Account(id, name, fqn, parent) ==
    [Id |-> id, Name |-> name, FullyQualifiedName |-> fqn, ParentRef |-> parent]

Frame(pid) == [pid |-> pid, i |-> 1, kids |-> <<>>]
Top == stack[Len(stack)]
all_accts == qbo.accounts

\* an account with a parent is taken for a child of every account
IsChildOf_AnyParent(a, pid) == a.ParentRef # <<>>
\* isinstance(pr, dict) and pr.get("value") == pid
IsChildOf(a, pid) == a.ParentRef = <<pid>>

RECURSIVE InsertByName(_, _)
\* kid put after the last node whose name is not greater than its own
InsertByName(sorted, kid) ==
    IF sorted = <<>> THEN <<kid>>
    ELSE IF StrLess(kid.name, Head(sorted).name) THEN <<kid>> \o sorted
    ELSE <<Head(sorted)>> \o InsertByName(Tail(sorted), kid)

RECURSIVE SortKids(_, _)
SortKids(kids, sorted) ==
    IF kids = <<>> THEN sorted
    ELSE SortKids(Tail(kids), InsertByName(sorted, Head(kids)))

\* kids left in the order of all_accts
sort_by_name_Unsorted(kids) == kids
\* kids.sort(key=lambda x: x["name"]), a stable sort
sort_by_name(kids) == SortKids(kids, <<>>)

\* the loop is at an account that is no child of pid
BuildChildrenSkip ==
    /\ pc = "children"
    /\ Top.i <= Len(all_accts)
    /\ ~IsChildOf(all_accts[Top.i], Top.pid)
    /\ stack' = [stack EXCEPT ![Len(stack)].i = @ + 1]
    /\ UNCHANGED <<pc, rows, tree, sections, out, args, qbo, resolved, options, stderr, netvars>>

\* the loop is at a child of pid: build_children(a["Id"]) is called
BuildChildrenCall ==
    /\ pc = "children"
    /\ Top.i <= Len(all_accts)
    /\ IsChildOf(all_accts[Top.i], Top.pid)
    /\ Len(stack) < RecursionLimit
    /\ stack' = Append(stack, Frame(all_accts[Top.i].Id))
    /\ UNCHANGED <<pc, rows, tree, sections, out, args, qbo, resolved, options, stderr, netvars>>

\* the call would exceed the recursion limit of the interpreter: the
\* RecursionError is caught nowhere and ends the command
BuildChildrenOverflow ==
    /\ pc = "children"
    /\ Top.i <= Len(all_accts)
    /\ IsChildOf(all_accts[Top.i], Top.pid)
    /\ Len(stack) >= RecursionLimit
    /\ pc' = "RecursionError"
    /\ UNCHANGED <<rows, tree, sections, out, cmdvars, netvars>>

\* the loop is over: kids are sorted and returned, to the caller's
\* kids.append({...}) or to the dict _discover_account_tree returns
BuildChildrenReturn ==
    /\ pc = "children"
    /\ Top.i > Len(all_accts)
    /\ LET kids == sort_by_name(Top.kids)
           n == Len(stack)
       IN  IF n = 1
           THEN /\ tree' = [tree EXCEPT !.children = kids]
                /\ stack' = <<>>
                /\ pc' = "built"
           ELSE LET a == all_accts[stack[n - 1].i]
                    kid == [name |-> a.Name, id |-> a.Id, children |-> kids]
                IN  /\ stack' = [SubSeq(stack, 1, n - 1) EXCEPT
                                    ![n - 1].kids = Append(@, kid),
                                    ![n - 1].i = @ + 1]
                    /\ UNCHANGED <<pc, tree>>
    /\ UNCHANGED <<rows, sections, out, args, qbo, resolved, options, stderr, netvars>>

\* the ids and the names of the accounts of a company whose tree is built
TreeIds == {str(k) : k \in 1..MaxTreeAccounts}
TreeNames == {<<"B">>, <<"a">>}
\* the parents an account may refer to
TreeParents == {<<>>, <<str(1)>>, <<str(2)>>}
TreeAccounts ==
    {Account(id, name, <<>>, parent) :
        id \in TreeIds, name \in TreeNames, parent \in TreeParents}

\* the accounts of a list have distinct ids
DistinctIds(accts) ==
    \A i, j \in 1..Len(accts) : accts[i].Id = accts[j].Id => i = j

\* the tree of the account with id 1 is built from the accounts of the
\* company, a list of at most MaxTreeAccounts accounts in any order
InitTree ==
    /\ pc = "children"
    /\ rows = NotFetched
    /\ tree = [name |-> <<"R">>, id |-> str(1), children |-> <<>>]
    /\ sections = <<>>
    /\ out = NoOut
    /\ args = [account |-> <<str(1)>>, customer |-> <<>>]
    /\ \E n \in 0..MaxTreeAccounts : \E accts \in [1..n -> TreeAccounts] :
         /\ DistinctIds(accts)
         /\ qbo = [accounts |-> accts, customers |-> <<>>]
    /\ stack = <<Frame(str(1))>>
    /\ resolved = <<>>
    /\ options = <<>>
    /\ stderr = <<>>
    /\ NoNetwork

NextTree == BuildChildrenSkip \/ BuildChildrenCall
            \/ BuildChildrenOverflow \/ BuildChildrenReturn

SpecTree == InitTree /\ [][NextTree]_vars

(***************************************************************************)
(* The gl-report command: cmd_gl_report resolves the customer and the      *)
(* account, builds the account tree, fetches the report, checks it for     *)
(* NoReportData, parses it and prints one of the reports.  die() writes    *)
(* its message to stderr and exits: pc = "fatal".                          *)
(***************************************************************************)

\* str.lower() on the letters of the names below
lower(s) ==
    [i \in 1..Len(s) |->
        CASE s[i] = "A" -> "a" [] s[i] = "B" -> "b" [] s[i] = "C" -> "c"
          [] s[i] = "D" -> "d" [] OTHER -> s[i]]
\* str.isdigit()
isdigit(s) == s # <<>> /\ \A i \in 1..Len(s) : IsDigit(s[i])
\* sub occurs in s
Contains(s, sub) ==
    \E i \in 1..(Len(s) - Len(sub) + 1) : SubSeq(s, i, i + Len(sub) - 1) = sub

\* a customer of the Customer query; FullyQualifiedName at most one
Customer(id, name, fqn) ==
    [Id |-> id, DisplayName |-> name, FullyQualifiedName |-> fqn]

\* client.query("... FROM Account WHERE Id = '{account_ref}'")
query_account_by_id(ref) == SelectSeq(qbo.accounts, LAMBDA a : a.Id = ref)
\* the query answered with every account
query_account_like_All(ref) == qbo.accounts
\* client.query("... FROM Account WHERE Name LIKE '%{account_ref}%'"): the
\* accounts whose name contains the reference, letter case ignored
query_account_like(ref) ==
    SelectSeq(qbo.accounts, LAMBDA a : Contains(lower(a.Name), lower(ref)))
\* client.query("... FROM Customer WHERE DisplayName = '{name}'")
query_customer_eq(name) ==
    SelectSeq(qbo.customers, LAMBDA c : c.DisplayName = name)
\* client.query("... FROM Customer WHERE DisplayName LIKE '%{name}%'")
query_customer_like(name) ==
    SelectSeq(qbo.customers, LAMBDA c : Contains(lower(c.DisplayName), lower(name)))

\* d.get("FullyQualifiedName", default)
FullName(d, default) ==
    IF d.FullyQualifiedName # <<>> THEN d.FullyQualifiedName[1] ELSE default

\* the lines _resolve_customer writes when several customers are found
MultipleCustomers(name, customers) ==
    <<[msg |-> "Multiple customers found for", ref |-> name]>>
    \o [i \in 1..Len(customers) |->
            [msg |-> "ID= Name=", id |-> customers[i].Id,
             name |-> FullName(customers[i], customers[i].DisplayName)]]
    \o <<[msg |-> "Using first match."]>>

\* _resolve_customer(client, name): the pair returned and the lines
\* written; fatal when the customer is not found
_resolve_customer(name) ==
    IF isdigit(name)
    THEN LET found == SelectSeq(qbo.customers, LAMBDA c : c.Id = name)
         IN  IF found = <<>>
             THEN [fatal |-> TRUE, pair |-> <<>>,
                   err |-> <<[msg |-> "API error", ref |-> name]>>]
             ELSE [fatal |-> FALSE,
                   pair |-> <<name, FullName(found[1], found[1].DisplayName)>>,
                   err |-> <<>>]
    ELSE LET exact == query_customer_eq(name)
             customers == IF exact # <<>> THEN exact ELSE query_customer_like(name)
             same == SelectSeq(customers,
                               LAMBDA c : lower(c.DisplayName) = lower(name))
             c == IF same # <<>> THEN same[1] ELSE customers[1]
         IN  IF customers = <<>>
             THEN [fatal |-> TRUE, pair |-> <<>>,
                   err |-> <<[msg |-> "No customer found matching", ref |-> name]>>]
             ELSE [fatal |-> FALSE,
                   pair |-> <<c.Id, FullName(c, c.DisplayName)>>,
                   err |-> IF Len(customers) > 1
                           THEN MultipleCustomers(name, customers) ELSE <<>>]

\* cust_id, cust_name = _resolve_customer(client, args.customer), if given
ResolveCustomer ==
    /\ pc = "start"
    /\ IF args.customer = <<>>
       THEN /\ pc' = "account"
            /\ UNCHANGED <<resolved, stderr>>
       ELSE LET r == _resolve_customer(args.customer[1])
            IN  /\ pc' = IF r.fatal THEN "fatal" ELSE "account"
                /\ resolved' = r.pair
                /\ stderr' = stderr \o r.err
    /\ UNCHANGED <<rows, tree, sections, out, args, qbo, stack, options, netvars>>

\* _discover_account_tree(client, args.account) up to the call of
\* build_children(parent_id); die() when no account is given or found
ResolveAccount ==
    /\ pc = "account"
    /\ IF args.account = <<>>
       THEN /\ pc' = "fatal"
            /\ stderr' = Append(stderr, [msg |-> "Account is required."])
            /\ UNCHANGED <<tree, stack>>
       ELSE LET account_ref == args.account[1]
            IN  IF isdigit(account_ref)
                THEN LET accts == query_account_by_id(account_ref)
                         parent_name ==
                             IF accts # <<>>
                             THEN FullName(accts[1], accts[1].Name)
                             ELSE <<"A", "c", "c", "o", "u", "n", "t", " ">>
                                  \o account_ref
                     IN  /\ tree' = [name |-> strip(AfterLastColon(parent_name)),
                                     id |-> account_ref, children |-> <<>>]
                         /\ stack' = <<Frame(account_ref)>>
                         /\ pc' = "children"
                         /\ UNCHANGED stderr
                ELSE LET accts == query_account_like(account_ref)
                         same == SelectSeq(accts,
                                     LAMBDA a : lower(a.Name) = lower(account_ref))
                         match == IF same # <<>> THEN same[1] ELSE accts[1]
                     IN  IF accts = <<>>
                         THEN /\ pc' = "fatal"
                              /\ stderr' = Append(stderr,
                                     [msg |-> "No account found matching",
                                      ref |-> account_ref])
                              /\ UNCHANGED <<tree, stack>>
                         ELSE /\ tree' = [name |-> strip(AfterLastColon(
                                                  FullName(match, match.Name))),
                                          id |-> match.Id, children |-> <<>>]
                              /\ stack' = <<Frame(match.Id)>>
                              /\ pc' = "children"
                              /\ UNCHANGED stderr
    /\ UNCHANGED <<rows, sections, out, args, qbo, resolved, options, netvars>>

\* the Header.Option lists of a report
Option(name, value) == [Name |-> name, Value |-> value]
OptionLists ==
    { <<>>,
      <<Option("NoReportData", "true")>>,
      <<Option("NoReportData", "false")>>,
      <<Option("ReportBasis", "true"), Option("NoReportData", "true")>> }
\* the Rows of a report: none, or one section with one transaction
CommandPayloads ==
    {RowsEmptyMap,
     RowsOf(<<SectionRow(ReportHeaderPool[1],
                         RowsOf(<<DataRow(ReportDataPool[1])>>))>>)}

\* gl_data = client.report("GeneralLedger", params)
FetchReport ==
    /\ pc = "built"
    /\ \E r \in CommandPayloads, o \in OptionLists :
         /\ rows' = r
         /\ options' = o
    /\ pc' = "check"
    /\ UNCHANGED <<tree, sections, out, args, qbo, stack, resolved, stderr, netvars>>

\* only the first option is looked at
no_report_data_FirstOnly(opts) ==
    opts # <<>> /\ opts[1].Name = "NoReportData" /\ opts[1].Value = "true"
\* some option has Name "NoReportData" and Value "true"
no_report_data(opts) ==
    \E i \in 1..Len(opts) :
        opts[i].Name = "NoReportData" /\ opts[i].Value = "true"

\* the loop over gl_data["Header"]["Option"]
CheckNoReportData ==
    /\ pc = "check"
    /\ IF no_report_data(options)
       THEN /\ pc' = "fatal"
            /\ stderr' = Append(stderr, [msg |-> "No data found for the specified filters."])
       ELSE /\ pc' = "fetched"
            /\ UNCHANGED stderr
    /\ UNCHANGED <<rows, tree, sections, out, args, qbo, stack, resolved, options, netvars>>

\* the companies of the command: no account; A with its sub-account BA, in
\* both orders; two accounts named BA; A and BA the parent of each other;
\* A and an account that is its own parent
A1 == Account(<<"1">>, <<"A">>, <<>>, <<>>)
BA2 == Account(<<"2">>, <<"B", "A">>, << <<"A", ":", "B", "A">> >>, << <<"1">> >>)
CommandAccounts ==
    { <<>>,
      <<A1, BA2>>,
      <<BA2, A1>>,
      <<Account(<<"1">>, <<"B", "A">>, <<>>, <<>>), BA2>>,
      <<Account(<<"1">>, <<"A">>, <<>>, << <<"2">> >>), BA2>>,
      <<A1, Account(<<"2">>, <<"B", "A">>, <<>>, << <<"2">> >>)>> }
\* its customers: none; two that contain "c", one of them "C"; two that
\* contain "c", none of them "c" or "C"; "c" itself and another
CommandCustomers ==
    { <<>>,
      <<Customer(<<"9">>, <<"d", "c">>, <<>>), Customer(<<"8">>, <<"C">>, <<>>)>>,
      <<Customer(<<"9">>, <<"d", "c">>, <<>>),
        Customer(<<"8">>, <<"C", "d">>, << <<"P", ":", "C", "d">> >>)>>,
      <<Customer(<<"7">>, <<"c">>, <<>>), Customer(<<"9">>, <<"d", "c">>, <<>>)>> }
\* the references given with -a and -c
AccountRefs == {<<>>, << <<"a">> >>, << <<"z", "z">> >>, << <<"1">> >>}
CustomerRefs == {<<>>, << <<"c">> >>, << <<"7">> >>}

InitCommand ==
    /\ pc = "start"
    /\ rows = NotFetched
    /\ tree = NoTree
    /\ sections = <<>>
    /\ out = NoOut
    /\ \E a \in AccountRefs, c \in CustomerRefs :
         args = [account |-> a, customer |-> c]
    /\ \E as \in CommandAccounts, cs \in CommandCustomers :
         /\ args.customer = <<>> => cs = <<>>
         /\ qbo = [accounts |-> as, customers |-> cs]
    /\ stack = <<>>
    /\ resolved = <<>>
    /\ options = <<>>
    /\ stderr = <<>>
    /\ NoNetwork

NextCommand ==
    \/ ResolveCustomer \/ ResolveAccount
    \/ BuildChildrenSkip \/ BuildChildrenCall
    \/ BuildChildrenOverflow \/ BuildChildrenReturn
    \/ FetchReport \/ CheckNoReportData
    \/ Parse \/ BuildReportLines \/ BuildTxnsReport \/ BuildByCustomerReport

SpecCommand == InitCommand /\ [][NextCommand]_vars

\* the command is one sequential process: a step that can be taken is taken
SpecCommandLive == SpecCommand /\ WF_vars(NextCommand)

(***************************************************************************)
(* The title of the report: date_range = _format_date_range(display_start, *)
(* end_date) for the dates of the command.                                 *)
(***************************************************************************)
\* two digits of a number below 100, four of a number below 10000
Pad2(n) == <<Digits[(n \div 10) + 1], Digits[(n % 10) + 1]>>
Pad4(n) == Pad2(n \div 100) \o Pad2(n % 100)
\* the dates given with --start and --end: a leap year and the year after,
\* every month, the first day, a day in the middle and every last day; some
\* of them name no day of the calendar
DateYears == {2024, 2025}
DateDays == {1, 15, 28, 29, 30, 31}
DateStrings ==
    {Pad4(y) \o <<"-">> \o Pad2(m) \o <<"-">> \o Pad2(d) :
        y \in DateYears, m \in 1..12, d \in DateDays}

FormatDateRange ==
    /\ pc = "dates"
    /\ out' = [op |-> "date_range",
               result |-> _format_date_range(args.start, args.end)]
    /\ pc' = "done"
    /\ UNCHANGED <<rows, tree, sections, cmdvars, netvars>>

InitDateRange ==
    /\ pc = "dates"
    /\ rows = NotFetched
    /\ tree = NoTree
    /\ sections = <<>>
    /\ out = NoOut
    /\ \E s \in DateStrings, e \in DateStrings : args = [start |-> s, end |-> e]
    /\ qbo = NoCompany
    /\ stack = <<>>
    /\ resolved = <<>>
    /\ options = <<>>
    /\ stderr = <<>>
    /\ NoNetwork

NextDateRange == FormatDateRange

SpecDateRange == InitDateRange /\ [][NextDateRange]_vars

(***************************************************************************)
(* A line of a report: _pad_line(label, amt_str, prefix) for a label of up *)
(* to MaxLabelLen characters.                                              *)
(***************************************************************************)
PadPrefixes == {<<>>, Spaces(2)}
PadLabels == {[i \in 1..n |-> "A"] : n \in 0..MaxLabelLen}
PadAmounts == {_format_amount(0, <<>>), _format_amount(1000, <<>>),
               _format_amount(0 - 1000, <<"$">>)}

PadLine ==
    /\ pc = "line"
    /\ out' = [op |-> "pad_line",
               line |-> _pad_line(args.label, args.amt_str, args.prefix)]
    /\ pc' = "done"
    /\ UNCHANGED <<rows, tree, sections, cmdvars, netvars>>

InitPadLine ==
    /\ pc = "line"
    /\ rows = NotFetched
    /\ tree = NoTree
    /\ sections = <<>>
    /\ out = NoOut
    /\ \E prefix \in PadPrefixes, label \in PadLabels, amt_str \in PadAmounts :
         args = [prefix |-> prefix, label |-> label, amt_str |-> amt_str]
    /\ qbo = NoCompany
    /\ stack = <<>>
    /\ resolved = <<>>
    /\ options = <<>>
    /\ stderr = <<>>
    /\ NoNetwork

NextPadLine == PadLine

SpecPadLine == InitPadLine /\ [][NextPadLine]_vars

(***************************************************************************)
(* The section lookup: the report was fetched and the account tree built;  *)
(* _parse_gl_rows runs, then the section of a node of the tree is looked   *)
(* up.                                                                     *)
(***************************************************************************)
\* the ColData of the Data rows of a report whose sections are looked up
FindDataPool == <<ReportDataPool[1]>>
\* the Header.ColData of its Section rows: the account A, an account whose
\* name ends with " A", and a section named A whose header has no id
FindHeaderPool ==
    << <<Cell(<<"A">>, <<"1">>)>>,
       <<Cell(<<"4", " ", "A">>, <<"4">>)>>,
       <<Cell(<<"A">>, <<>>)>> >>

\* section = _find_gl_section(gl_sections, node["name"]) for a node of the tree
FindSection ==
    /\ pc = "parsed"
    /\ \E node \in NodesOf(tree) :
         out' = [op |-> "find", name |-> node.name, id |-> node.id,
                 section |-> _find_gl_section(sections, node.name)]
    /\ pc' = "done"
    /\ UNCHANGED <<rows, tree, sections, cmdvars, netvars>>

InitFind ==
    /\ pc = "fetched"
    /\ IsPayload(rows, MaxFindRows, FindDataPool, FindHeaderPool)
    /\ IsAccountTree(tree, MaxFindAccounts, AccountPool)
    /\ sections = <<>>
    /\ out = NoOut
    /\ NoCommand

NextFind == Parse \/ FindSection

SpecFind == InitFind /\ [][NextFind]_vars

(***************************************************************************)
(* Sections edited and read: after the parse (of an empty report too) the  *)
(* fields of the sections are assigned and the properties total_amount,    *)
(* total_count and all_transactions are read, in any order.                *)
(***************************************************************************)
RECURSIVE Paths(_)
\* the paths (index after index) of the sections of a forest
Paths(ss) ==
    UNION {{<<i>>} \cup {<<i>> \o p : p \in Paths(ss[i].children)} : i \in 1..Len(ss)}

RECURSIVE At(_, _)
\* the section at a path
At(ss, p) == IF Len(p) = 1 THEN ss[p[1]] ELSE At(ss[p[1]].children, Tail(p))

RECURSIVE Put(_, _, _)
\* the forest with the section at a path replaced
Put(ss, p, s) ==
    [ss EXCEPT ![p[1]] = IF Len(p) = 1 THEN s
                         ELSE [@ EXCEPT !.children = Put(@, Tail(p), s)]]

\* the reports parsed before sections are edited: one without rows, one of a
\* section with one transaction
EditPayloads ==
    {RowsOf(<<>>),
     RowsOf(<<SectionRow(ReportHeaderPool[1],
                         RowsOf(<<DataRow(ReportDataPool[1])>>))>>)}
\* the transaction of that Data row
T1 == _parse_txn_from_row(ReportDataPool[1])[1]

\* what is kept of the last read once a section is edited: the section read
Remember(o) == IF o.op = "read" THEN [op |-> "edited", path |-> o.path] ELSE o

\* sections.append(GLSection(...)): a section built by hand
NewSection ==
    /\ pc = "parsed"
    /\ Cardinality(Paths(sections)) < MaxSections
    /\ sections' = Append(sections, GLSection(<<"A">>, <<"1">>))
    /\ out' = Remember(out)
    /\ UNCHANGED <<pc, rows, tree, cmdvars, netvars>>

\* parent.children = [child]
SetChildren ==
    /\ pc = "parsed"
    /\ \E p \in Paths(sections) :
         LET s == At(sections, p)
             new == Put(sections, p,
                        [s EXCEPT !.children = <<GLSection(<<"A">>, <<"1">>)>>])
         IN  /\ Cardinality(Paths(new)) <= MaxSections
             /\ sections' = new
    /\ out' = Remember(out)
    /\ UNCHANGED <<pc, rows, tree, cmdvars, netvars>>

\* s.direct_amount = v, v the amount of the transaction
SetDirectAmount ==
    /\ pc = "parsed"
    /\ \E p \in Paths(sections) :
         sections' = Put(sections, p, [At(sections, p) EXCEPT !.direct_amount = T1.amount])
    /\ out' = Remember(out)
    /\ UNCHANGED <<pc, rows, tree, cmdvars, netvars>>

\* s.direct_count = 1
SetDirectCount ==
    /\ pc = "parsed"
    /\ \E p \in Paths(sections) :
         sections' = Put(sections, p, [At(sections, p) EXCEPT !.direct_count = 1])
    /\ out' = Remember(out)
    /\ UNCHANGED <<pc, rows, tree, cmdvars, netvars>>

\* s.transactions = [t1]
SetTransactions ==
    /\ pc = "parsed"
    /\ \E p \in Paths(sections) :
         sections' = Put(sections, p, [At(sections, p) EXCEPT !.transactions = <<T1>>])
    /\ out' = Remember(out)
    /\ UNCHANGED <<pc, rows, tree, cmdvars, netvars>>

\* s.total_amount, s.total_count, s.all_transactions are read; "again" says
\* that the section was read before and that fields were assigned since
ReadSection ==
    /\ pc = "parsed"
    /\ \E p \in Paths(sections) :
         LET s == At(sections, p)
             r == [total_amount |-> total_amount(s),
                   total_count |-> total_count(s),
                   all_transactions |-> all_transactions(s)]
         IN  out' = [op |-> "read", path |-> p, result |-> r,
                     again |-> out.op = "edited" /\ out.path = p]
    /\ UNCHANGED <<pc, rows, tree, sections, cmdvars, netvars>>

InitSection ==
    /\ pc = "fetched"
    /\ rows \in EditPayloads
    /\ tree = NoTree
    /\ sections = <<>>
    /\ out = NoOut
    /\ NoCommand

NextSection ==
    \/ Parse \/ NewSection \/ SetChildren \/ SetDirectAmount \/ SetDirectCount
    \/ SetTransactions \/ ReadSection

SpecSection == InitSection /\ [][NextSection]_vars

(***************************************************************************)
(* QBOClient.query: one request per page of MAX_RESULTS entities.          *)
(***************************************************************************)
MAX_RESULTS == 1000
\* the pages a call may ask for (max_pages)
MaxPages == 3

S_STARTPOSITION == <<" ", "S", "T", "A", "R", "T", "P", "O", "S", "I", "T", "I", "O", "N", " ">>
S_MAXRESULTS == <<" ", "M", "A", "X", "R", "E", "S", "U", "L", "T", "S", " ">>
SQL_Customers == <<"S", "E", "L", "E", "C", "T", " ", "*", " ", "F", "R", "O", "M", " ", "C", "u", "s", "t", "o", "m", "e", "r">>
SQL_UserMaxResults == SQL_Customers \o <<" ", "M", "A", "X", "R", "E", "S", "U", "L", "T", "S", " ", "1">>
SQL_UserStartPosition == SQL_Customers \o <<" ", "S", "T", "A", "R", "T", "P", "O", "S", "I", "T", "I", "O", "N", " ", "5">>

\* f"{sql} STARTPOSITION {start} MAXRESULTS {MAX_RESULTS}"
paginated_sql(sql, start_pos) ==
    sql \o S_STARTPOSITION \o str(start_pos) \o S_MAXRESULTS \o str(MAX_RESULTS)

\* a key of the QueryResponse object and its value: a list, or the tuple
\* <<n>> standing for the number n
QRItem(key, is_list, val) == [key |-> key, is_list |-> is_list, val |-> val]
\* the body returned by request(): a JSON object with or without QueryResponse
Body(has_qr, qr) == [hasQueryResponse |-> has_qr, QueryResponse |-> qr]

\* entity k of page p
Entity(p, k) == 10000 * p + k
EntityList(p, n) == [k \in 1..n |-> Entity(p, k)]

\* qr = data.get("QueryResponse", {})
QueryResponseOf(data) == IF data.hasQueryResponse THEN data.QueryResponse ELSE <<>>

RECURSIVE first_list(_)
\* for key, val in qr.items(): if isinstance(val, list): entities = val; break
first_list(qr) ==
    IF qr = <<>> THEN <<>>
    ELSE IF Head(qr).is_list THEN Head(qr).val
    ELSE first_list(Tail(qr))

\* the loop of query stops at the first page of fewer than MAX_RESULTS
\* entities; this variant stops at a page that is empty
last_page_Empty(entities) == Len(entities) = 0
\* if len(entities) < MAX_RESULTS: break
last_page(entities) == Len(entities) < MAX_RESULTS

\* for page in range(max_pages): the request of the next page
QueryRequest ==
    /\ pc = "query"
    /\ client.page < client.max_pages
    /\ http' = Append(http, [method |-> "GET", path |-> "query",
                             query |-> paginated_sql(client.sql, client.start_pos),
                             response |-> <<>>])
    /\ pc' = "request"
    /\ UNCHANGED <<rows, tree, sections, out, cmdvars, client, procs, token_file, flock, clock, intuit>>

\* range(max_pages) is exhausted: return all_results
QueryExhausted ==
    /\ pc = "query"
    /\ client.page >= client.max_pages
    /\ out' = [op |-> "query", value |-> client.all_results]
    /\ pc' = "returned"
    /\ UNCHANGED <<rows, tree, sections, cmdvars, netvars>>

\* request() returns the body of the page: the rest of the loop body
QueryResponse(data) ==
    /\ pc = "request"
    /\ LET entities == first_list(QueryResponseOf(data))
           all_results == client.all_results \o entities
       IN  /\ http' = [http EXCEPT ![Len(http)].response = <<data>>]
           /\ IF last_page(entities)
                THEN /\ client' = [client EXCEPT !.all_results = all_results]
                     /\ out' = [op |-> "query", value |-> all_results]
                     /\ pc' = "returned"
                ELSE /\ client' = [client EXCEPT !.all_results = all_results,
                                                 !.start_pos = @ + MAX_RESULTS,
                                                 !.page = @ + 1]
                     /\ out' = out
                     /\ pc' = "query"
    /\ UNCHANGED <<rows, tree, sections, cmdvars, procs, token_file, flock, clock, intuit>>

\* request() ends the process: a network error or an API error
QueryExit ==
    /\ pc = "request"
    /\ pc' = "exit"
    /\ stderr' = Append(stderr, "API error")
    /\ UNCHANGED <<rows, tree, sections, out, args, qbo, stack, resolved, options, netvars>>

\* the sizes of a page: empty, one entity, one short of a full page, full
PageSizes == {0, 1, MAX_RESULTS - 1, MAX_RESULTS}
\* the bodies of page p: no QueryResponse, an empty one, one without a list,
\* a list alone, a list after the numbers startPosition and maxResults
Bodies(p) ==
    {Body(FALSE, <<>>), Body(TRUE, <<>>),
     Body(TRUE, <<QRItem("totalCount", FALSE, <<5>>)>>)}
    \cup {Body(TRUE, <<QRItem("Customer", TRUE, EntityList(p, n))>>) : n \in PageSizes}
    \cup {Body(TRUE, <<QRItem("startPosition", FALSE, <<1 + MAX_RESULTS * p>>),
                       QRItem("maxResults", FALSE, <<n>>),
                       QRItem("Customer", TRUE, EntityList(p, n))>>) : n \in PageSizes}

SQLs == {SQL_Customers, SQL_UserMaxResults, SQL_UserStartPosition}

InitQuery ==
    /\ pc = "query"
    /\ rows = NotFetched
    /\ tree = NoTree
    /\ sections = <<>>
    /\ out = NoOut
    /\ args = NoArgs
    /\ qbo = NoCompany
    /\ stack = <<>>
    /\ resolved = <<>>
    /\ options = <<>>
    /\ stderr = <<>>
    /\ http = <<>>
    /\ \E sql \in SQLs, max_pages \in 0..MaxPages :
          client = [sql |-> sql, max_pages |-> max_pages, all_results |-> <<>>,
                    start_pos |-> 1, page |-> 0]
    /\ procs = <<>>
    /\ token_file = <<>>
    /\ flock = <<>>
    /\ clock = 0
    /\ intuit = 0

NextQuery ==
    \/ QueryRequest
    \/ QueryExhausted
    \/ \E data \in Bodies(client.page) : QueryResponse(data)
    \/ QueryExit

SpecQuery == InitQuery /\ [][NextQuery]_vars

(***************************************************************************)
(* TokenManager and QBOClient.request: the qbo processes share the token   *)
(* file and the lock file; each runs one request, one get_valid_token, or  *)
(* `auth refresh`.                                                         *)
(***************************************************************************)
REFRESH_MARGIN_SEC == 300
\* the qbo processes running at the same time
MaxProcs == 2
\* the hours that pass while they run
MaxTicks == 1

Hour == 12 * REFRESH_MARGIN_SEC
\* the time at which the processes start
T0 == Hour

\* the content of tokens.json (the fields that are read)
Tokens(access, refresh, expires_at) ==
    [access_token |-> access, refresh_token |-> refresh, expires_at |-> expires_at]

\* time.time() < expires_at - REFRESH_MARGIN_SEC
still_valid(tokens, t) == t < tokens.expires_at - REFRESH_MARGIN_SEC

\* the re-read of _locked_refresh without its test: the endpoint is called
\* whatever the expiry of the stored token
re_read_valid_Never(tokens, t) == FALSE
\* _locked_refresh: if time.time() < tokens["expires_at"] - REFRESH_MARGIN_SEC
re_read_valid(tokens, t) == still_valid(tokens, t)

\* the response to an API request, or the exception raised by requests
Response(kind, status_code) == [kind |-> kind, status_code |-> status_code]
\* resp.ok
ok(resp) == resp.status_code < 400
Responses ==
    {Response("response", 200), Response("response", 401), Response("response", 500),
     Response("ConnectionError", 0)}

\* request retrying whenever the status is 401
retry_on_401_Always(resp, attempt) == resp.status_code = 401
\* if resp.status_code == 401 and attempt == 0
retry_on_401(resp, attempt) == resp.status_code = 401 /\ attempt = 0

\* the request of attempt n, as sent by requests.request
ApiRequest(p, n, token) ==
    [url |-> "api", by |-> p, attempt |-> n, Authorization |-> token,
     response |-> <<>>]
\* the POST of _do_refresh to TOKEN_URL
TokenRequest(p, refresh, t) ==
    [url |-> "token", by |-> p, refresh_token |-> refresh, at |-> t,
     result |-> "pending", expires_at |-> 0]

\* the local state of a process before its command starts
Proc(cmd, raw_response) ==
    [cmd |-> cmd, raw_response |-> raw_response,
     pc |-> IF cmd = "auth refresh" THEN "auth_refresh" ELSE "get_valid_token",
     ret |-> "", attempt |-> 0, token |-> <<>>, tokens |-> <<>>,
     new_tokens |-> <<>>, locked_refreshes |-> <<>>]

\* the call of _locked_refresh that returns to ret; the call is noted with
\* the attempt it comes before
CallLockedRefresh(pr, ret) ==
    [pr EXCEPT !.pc = "flock", !.ret = ret,
               !.locked_refreshes = Append(@, [before |-> pr.attempt, returned |-> <<>>])]
\* _locked_refresh returns access_token: its locals are gone, the lock is
\* still held
ReturnFromLockedRefresh(pr, access_token) ==
    [pr EXCEPT !.pc = "unlock", !.token = <<access_token>>,
               !.tokens = <<>>, !.new_tokens = <<>>,
               !.locked_refreshes[Len(pr.locked_refreshes)].returned = <<access_token>>]

\* where get_valid_token returns to: the first attempt of request, or the
\* end of the call
AfterGetValidToken(pr) == IF pr.cmd = "request" THEN "attempt" ELSE "returned"

\* get_valid_token: load, then the stored token or _locked_refresh
GetValidToken(p) ==
    /\ procs[p].pc = "get_valid_token"
    /\ procs' = [procs EXCEPT ![p] =
          IF still_valid(token_file, clock)
          THEN [@ EXCEPT !.pc = AfterGetValidToken(procs[p]),
                         !.token = <<token_file.access_token>>]
          ELSE CallLockedRefresh([@ EXCEPT !.tokens = token_file],
                                 AfterGetValidToken(procs[p]))]
    /\ UNCHANGED <<pc, rows, tree, sections, out, cmdvars, http, client, token_file, flock, clock, intuit>>

\* cmd_auth_refresh: token_mgr.load(), then _locked_refresh
AuthRefresh(p) ==
    /\ procs[p].pc = "auth_refresh"
    /\ procs' = [procs EXCEPT ![p] =
          CallLockedRefresh([@ EXCEPT !.tokens = token_file], "refreshed")]
    /\ UNCHANGED <<pc, rows, tree, sections, out, cmdvars, http, client, token_file, flock, clock, intuit>>

\* fcntl.flock(lock_file, fcntl.LOCK_EX): blocks while another process holds
\* the lock
Flock(p) ==
    /\ procs[p].pc = "flock"
    /\ flock = <<>>
    /\ flock' = <<p>>
    /\ procs' = [procs EXCEPT ![p].pc = "re_read"]
    /\ UNCHANGED <<pc, rows, tree, sections, out, cmdvars, http, client, token_file, clock, intuit>>

\* tokens = self.load() under the lock: return the stored token if it is
\* valid, else go on to _do_refresh
ReRead(p) ==
    /\ procs[p].pc = "re_read"
    /\ procs' = [procs EXCEPT ![p] =
          IF re_read_valid(token_file, clock)
          THEN ReturnFromLockedRefresh([@ EXCEPT !.tokens = token_file],
                                       token_file.access_token)
          ELSE [@ EXCEPT !.pc = "do_refresh", !.tokens = token_file]]
    /\ UNCHANGED <<pc, rows, tree, sections, out, cmdvars, http, client, token_file, flock, clock, intuit>>

\* _do_refresh: requests.post(TOKEN_URL, refresh_token = tokens["refresh_token"])
PostToken(p) ==
    /\ procs[p].pc = "do_refresh"
    /\ http' = Append(http, TokenRequest(p, procs[p].tokens.refresh_token, clock))
    /\ procs' = [procs EXCEPT ![p].pc = "posting"]
    /\ UNCHANGED <<pc, rows, tree, sections, out, cmdvars, client, token_file, flock, clock, intuit>>

\* the index in http of the request p is waiting for
Pending(p) == CHOOSE i \in 1..Len(http) : http[i].by = p /\ \A j \in (i + 1)..Len(http) : http[j].by # p

\* the endpoint grants new tokens: _do_refresh returns the new dict
TokenGranted(p, expires_in, rotated) ==
    /\ procs[p].pc = "posting"
    /\ intuit' = intuit + 1
    /\ LET new_tokens ==
              Tokens(intuit' + 1,
                     IF rotated THEN intuit' + 1 ELSE procs[p].tokens.refresh_token,
                     clock + expires_in)
       IN  /\ procs' = [procs EXCEPT ![p].pc = "save", ![p].new_tokens = new_tokens]
           /\ http' = [http EXCEPT ![Pending(p)].result = "granted",
                                   ![Pending(p)].expires_at = new_tokens.expires_at]
    /\ UNCHANGED <<pc, rows, tree, sections, out, cmdvars, client, token_file, flock, clock>>

\* the endpoint refuses, or cannot be reached: die() ends the process and
\* the finally clause releases the lock
TokenRefused(p) ==
    /\ procs[p].pc = "posting"
    /\ http' = [http EXCEPT ![Pending(p)].result = "refused"]
    /\ procs' = [procs EXCEPT ![p].pc = "died", ![p].tokens = <<>>]
    /\ flock' = <<>>
    /\ UNCHANGED <<pc, rows, tree, sections, out, cmdvars, client, token_file, clock, intuit>>

\* self.save(new_tokens); return new_tokens["access_token"]
Save(p) ==
    /\ procs[p].pc = "save"
    /\ token_file' = procs[p].new_tokens
    /\ procs' = [procs EXCEPT ![p] =
          ReturnFromLockedRefresh(@, procs[p].new_tokens.access_token)]
    /\ UNCHANGED <<pc, rows, tree, sections, out, cmdvars, http, client, flock, clock, intuit>>

\* finally: fcntl.flock(lock_file, fcntl.LOCK_UN), back in the caller
Unlock(p) ==
    /\ procs[p].pc = "unlock"
    /\ flock' = <<>>
    /\ procs' = [procs EXCEPT ![p].pc = procs[p].ret]
    /\ UNCHANGED <<pc, rows, tree, sections, out, cmdvars, http, client, token_file, clock, intuit>>

\* err_print("Token refreshed successfully")
AuthRefreshed(p) ==
    /\ procs[p].pc = "refreshed"
    /\ procs' = [procs EXCEPT ![p].pc = "done"]
    /\ UNCHANGED <<pc, rows, tree, sections, out, cmdvars, http, client, token_file, flock, clock, intuit>>

\* requests.request(method, url, headers=self._headers(token), ...)
Attempt(p) ==
    /\ procs[p].pc = "attempt"
    /\ http' = Append(http, ApiRequest(p, procs[p].attempt, procs[p].token[1]))
    /\ procs' = [procs EXCEPT ![p].pc = "waiting"]
    /\ UNCHANGED <<pc, rows, tree, sections, out, cmdvars, client, token_file, flock, clock, intuit>>

\* the rest of request once requests.request has returned or raised
Respond(p, resp) ==
    /\ procs[p].pc = "waiting"
    /\ http' = [http EXCEPT ![Pending(p)].response = <<resp>>]
    /\ procs' = [procs EXCEPT ![p] =
          IF resp.kind # "response" THEN [@ EXCEPT !.pc = "died"]
          ELSE IF retry_on_401(resp, procs[p].attempt)
          THEN CallLockedRefresh([@ EXCEPT !.attempt = 1, !.tokens = token_file], "attempt")
          ELSE IF procs[p].raw_response THEN [@ EXCEPT !.pc = "returned"]
          ELSE IF ~ok(resp) THEN [@ EXCEPT !.pc = "api_error"]
          ELSE [@ EXCEPT !.pc = "returned"]]
    /\ UNCHANGED <<pc, rows, tree, sections, out, cmdvars, client, token_file, flock, clock, intuit>>

\* an hour passes
Tick ==
    /\ clock < T0 + MaxTicks * Hour
    /\ clock' = clock + Hour
    /\ UNCHANGED <<pc, rows, tree, sections, out, cmdvars, http, client, procs, token_file, flock, intuit>>

\* expires_in of the tokens granted: within the refresh margin, or an hour
ExpiresIn == {REFRESH_MARGIN_SEC, Hour}
\* expires_at of the stored tokens: passed, within the margin, beyond it
StoredExpiry == {T0 - Hour, T0 + REFRESH_MARGIN_SEC, T0 + Hour}
\* the token manager of p takes a step
TokenStep(p) ==
    \/ GetValidToken(p)
    \/ AuthRefresh(p)
    \/ Flock(p)
    \/ ReRead(p)
    \/ PostToken(p)
    \/ \E expires_in \in ExpiresIn, rotated \in BOOLEAN : TokenGranted(p, expires_in, rotated)
    \/ TokenRefused(p)
    \/ Save(p)
    \/ Unlock(p)
    \/ AuthRefreshed(p)

\* the state before the processes procs_0 start, with tokens.json present
InitProcs(procs_0) ==
    /\ pc = "token"
    /\ rows = NotFetched
    /\ tree = NoTree
    /\ sections = <<>>
    /\ out = NoOut
    /\ args = NoArgs
    /\ qbo = NoCompany
    /\ stack = <<>>
    /\ resolved = <<>>
    /\ options = <<>>
    /\ stderr = <<>>
    /\ http = <<>>
    /\ client = <<>>
    /\ procs \in procs_0
    /\ \E e \in StoredExpiry : token_file = Tokens(1, 1, e)
    /\ flock = <<>>
    /\ clock = T0
    /\ intuit = 0

\* one process: a request, or `auth refresh`
InitRequest ==
    InitProcs([{1} -> {Proc("request", FALSE), Proc("request", TRUE),
                       Proc("auth refresh", FALSE)}])

NextRequest ==
    \/ TokenStep(1)
    \/ Attempt(1)
    \/ \E resp \in Responses : Respond(1, resp)
    \/ Tick

SpecRequest == InitRequest /\ [][NextRequest]_vars

\* MaxProcs processes, each in get_valid_token or in `auth refresh`
InitToken ==
    InitProcs([1..MaxProcs -> {Proc("get_valid_token", FALSE), Proc("auth refresh", FALSE)}])

NextToken ==
    \/ \E p \in DOMAIN procs : TokenStep(p)
    \/ Tick

SpecToken == InitToken /\ [][NextToken]_vars

(***************************************************************************)
(* The renderers called one after the other on the same parsed data: each  *)
(* call leaves its result in out; gl_sections and account_tree are the     *)
(* objects as the call leaves them.                                        *)
(***************************************************************************)
\* the rows of the report that is rendered several times
MaxRenderRows == 3

\* _collapse_tree(node): a new node without children
_collapse_tree(node) == [name |-> node.name, id |-> node.id, children |-> <<>>]

\* all_transactions handing out the list of the section itself when the
\* section has no children
all_transactions_is_copy_OnlyOfParents(s) == s.children # <<>>
\* txns = list(self.transactions): the list returned by all_transactions is
\* a new list, never the list held by the section
all_transactions_is_copy(s) == TRUE

RECURSIVE SortFound(_, _)
\* the sections after the transactions of the section that _find_gl_section
\* finds were sorted in place by date
SortFound(ss, name) ==
    IF ss = <<>> THEN <<>>
    ELSE LET s == Head(ss)
         IN  IF s.name = name \/ endswith(s.name, <<" ">> \o name)
             THEN <<[s EXCEPT !.transactions = SortedByDate(@)]>> \o Tail(ss)
             ELSE IF _find_gl_section(s.children, name) # None
             THEN <<[s EXCEPT !.children = SortFound(@, name)]>> \o Tail(ss)
             ELSE <<s>> \o SortFound(Tail(ss), name)

\* gl_sections after _build_txns_report: txns.sort(key=...) sorts the list
\* returned by all_transactions in place
after_txns_sort(gl_sections, node) ==
    LET section == _find_gl_section(gl_sections, node.name)
    IN  IF section # None /\ ~all_transactions_is_copy(section[1])
        THEN SortFound(gl_sections, node.name)
        ELSE gl_sections

\* a transaction of the JSON output
TxnDict(t) ==
    [date |-> t.date, type |-> t.txn_type, id |-> t.txn_id, num |-> t.num,
     customer |-> t.customer, memo |-> t.memo, account |-> t.account,
     amount |-> t.amount]
\* [{...} for t in sorted(txns, key=lambda x: x.date)]
TxnDicts(txns) ==
    LET sorted == SortedByDate(txns)
    IN  [i \in 1..Len(sorted) |-> TxnDict(sorted[i])]

RECURSIVE tree_to_dict(_, _)
\* tree_to_dict(node) of the JSON output; a key that is not set is <<>>
tree_to_dict(gl_sections, node) ==
    LET section == _find_gl_section(gl_sections, node.name)
    IN  IF node.children = <<>>
        THEN LET txns == IF section # None THEN all_transactions(section[1]) ELSE <<>>
             IN  [name |-> node.name, id |-> node.id,
                  amount |-> IF section # None THEN total_amount(section[1]) ELSE 0,
                  count |-> IF section # None THEN total_count(section[1]) ELSE 0,
                  transactions |-> IF txns # <<>> THEN <<TxnDicts(txns)>> ELSE <<>>]
        ELSE [name |-> node.name, id |-> node.id,
              direct_amount |-> IF section # None THEN section[1].direct_amount ELSE 0,
              direct_count |-> IF section # None THEN section[1].direct_count ELSE 0,
              total_amount |-> _compute_subtotal(gl_sections, node)[1],
              total_count |-> _compute_subtotal(gl_sections, node)[2],
              children |-> [i \in 1..Len(node.children) |->
                               tree_to_dict(gl_sections, node.children[i])],
              transactions |->
                  IF section # None /\ section[1].transactions # <<>>
                  THEN <<TxnDicts(section[1].transactions)>> ELSE <<>>]

\* _compute_subtotal(gl_sections, account_tree), once more
CallComputeSubtotal ==
    /\ pc = "parsed"
    /\ out' = [op |-> "subtotal", subtotal |-> _compute_subtotal(sections, tree)]
    /\ UNCHANGED <<pc, rows, tree, sections, cmdvars, netvars>>

\* the tree report (expanded or not), once more
CallBuildReportLines ==
    /\ pc = "parsed"
    /\ \E expanded \in BOOLEAN :
         out' = [op |-> "lines", currency |-> <<"$">>, expanded |-> expanded,
                 lines |-> _build_report_lines(sections, tree, <<"$">>, 0, <<>>,
                                               expanded)]
    /\ UNCHANGED <<pc, rows, tree, sections, cmdvars, netvars>>

\* the flat ledger, once more: its sort works on the list it was handed
CallBuildTxnsReport ==
    /\ pc = "parsed"
    /\ out' = [op |-> "txns", currency |-> <<"$">>,
               lines |-> _build_txns_report(sections, tree, <<"$">>)]
    /\ sections' = after_txns_sort(sections, tree)
    /\ UNCHANGED <<pc, rows, tree, cmdvars, netvars>>

\* the by-customer report, once more
CallBuildByCustomerReport ==
    /\ pc = "parsed"
    /\ out' = [op |-> "by_customer", currency |-> <<"$">>,
               lines |-> _build_by_customer_report(sections, tree, <<"$">>)]
    /\ UNCHANGED <<pc, rows, tree, sections, cmdvars, netvars>>

\* the JSON output: report_data["account"] and report_data["total"]
CallTreeToDict ==
    /\ pc = "parsed"
    /\ out' = [op |-> "json", account |-> tree_to_dict(sections, tree),
               total |-> _compute_subtotal(sections, tree)[1]]
    /\ UNCHANGED <<pc, rows, tree, sections, cmdvars, netvars>>

\* _collapse_tree(account_tree): the node returned is a new dict
CallCollapseTree ==
    /\ pc = "parsed"
    /\ out' = [op |-> "collapse", node |-> _collapse_tree(tree)]
    /\ UNCHANGED <<pc, rows, tree, sections, cmdvars, netvars>>

InitRender ==
    /\ pc = "fetched"
    /\ IsPayload(rows, MaxRenderRows, LedgerDataPool, ReportHeaderPool)
    /\ IsAccountTree(tree, 2, AccountPool)
    /\ sections = <<>>
    /\ out = NoOut
    /\ NoCommand

NextRender ==
    \/ Parse
    \/ CallComputeSubtotal
    \/ CallBuildReportLines
    \/ CallBuildTxnsReport
    \/ CallBuildByCustomerReport
    \/ CallTreeToDict
    \/ CallCollapseTree

SpecRender == InitRender /\ [][NextRender]_vars

(***************************************************************************)
(* Vocabulary of the properties of the parser.                             *)
(***************************************************************************)
\* the rows directly inside a Rows object
RowList(ro) == IF ro.kind = "Map" /\ ro.hasRow THEN ro.Row ELSE <<>>
IsSectionRow(r) == r.type = "Section"
IsDataRow(r) == r.type = "Data"
SectionRowsIn(ro) == SelectSeq(RowList(ro), IsSectionRow)
IsNamedRow(r) == r.type = "Section" /\ HeaderName(r) # <<>>
IsAnonymousRow(r) == r.type = "Section" /\ HeaderName(r) = <<>>

RECURSIVE AllRows(_)
\* every row of a Rows object, at any depth
AllRows(ro) ==
    LET rs == RowList(ro)
    IN  {rs[i] : i \in 1..Len(rs)}
        \cup UNION {AllRows(rs[i].Rows) : i \in 1..Len(rs)}

RECURSIVE AllSections(_)
\* every section reachable from a list of sections, at any depth
AllSections(ss) ==
    {ss[i] : i \in 1..Len(ss)}
    \cup UNION {AllSections(ss[i].children) : i \in 1..Len(ss)}

\* a Data row that the report calls malformed
Malformed(cols) ==
    \/ Len(cols) < 7
    \/ cols[1].value = S_BeginningBalance
    \/ cols[7].value = <<>>
    \/ ~float(cols[7].value).ok
IsAcceptedRow(r) == r.type = "Data" /\ ~Malformed(r.ColData)
AcceptedRowsIn(ro) == SelectSeq(RowList(ro), IsAcceptedRow)

Amounts(txns) == [i \in 1..Len(txns) |-> txns[i].amount]
Col6Values(rs) == [i \in 1..Len(rs) |-> float(rs[i].ColData[7].value).val]

RECURSIVE CleanRows(_)
RECURSIVE CleanList(_)
\* the payload without its malformed Data rows
CleanList(rs) ==
    IF rs = <<>> THEN <<>>
    ELSE LET r == Head(rs)
         IN  (IF r.type = "Data" /\ Malformed(r.ColData) THEN <<>>
              ELSE <<[r EXCEPT !.Rows = CleanRows(r.Rows)]>>)
             \o CleanList(Tail(rs))
CleanRows(ro) == IF ro.kind = "Map" /\ ro.hasRow THEN RowsOf(CleanList(ro.Row)) ELSE ro

(***************************************************************************)
(* C1.  After _parse_gl_rows returns, no section reachable from the        *)
(* returned list, at any depth, has a child named "__direct__": every      *)
(* anonymous sub-section was absorbed into its parent and removed, also    *)
(* one that carries no transaction.                                        *)
(***************************************************************************)
C1_NoAnonymousChild ==
    pc = "parsed" =>
        \A s \in AllSections(sections) :
            \A i \in 1..Len(s.children) : s.children[i].name # S_direct

\* a headerless Section row without a transaction, two levels down, was parsed
C1_Witness ==
    /\ pc = "parsed"
    /\ \E i \in 1..Len(RowList(rows)) :
         LET r1 == RowList(rows)[i]
         IN  /\ IsNamedRow(r1) /\ HeaderName(r1) # S_direct
             /\ \E j \in 1..Len(RowList(r1.Rows)) :
                  LET r2 == RowList(r1.Rows)[j]
                  IN  /\ IsNamedRow(r2) /\ HeaderName(r2) # S_direct
                      /\ \E k \in 1..Len(RowList(r2.Rows)) :
                           LET r3 == RowList(r2.Rows)[k]
                           IN  IsAnonymousRow(r3) /\ DirectTxns(r3) = <<>>
    /\ \E s \in AllSections(sections) : s.children # <<>>

(***************************************************************************)
(* C5.  For every named Section row, the parsed section's direct_amount,   *)
(* direct_count and transactions are those of its own accepted Data rows   *)
(* followed by those of every headerless Section row directly nested in    *)
(* it, in input order, and its children are exactly the named Section rows *)
(* directly nested in it.                                                  *)
(***************************************************************************)
RECURSIVE AcceptedOfAnonymous(_)
AcceptedOfAnonymous(rs) ==
    IF rs = <<>> THEN <<>>
    ELSE (IF IsAnonymousRow(Head(rs)) THEN AcceptedRowsIn(Head(rs).Rows) ELSE <<>>)
         \o AcceptedOfAnonymous(Tail(rs))

RowTxn(r) == _parse_txn_from_row(r.ColData)[1]

RECURSIVE SectionOfNamedRow(_)
\* the section described for a named Section row
SectionOfNamedRow(r) ==
    LET accepted == AcceptedRowsIn(r.Rows) \o AcceptedOfAnonymous(RowList(r.Rows))
        txns == [i \in 1..Len(accepted) |-> RowTxn(accepted[i])]
        named == SelectSeq(RowList(r.Rows), IsNamedRow)
    IN  [name |-> HeaderName(r), id |-> HeaderId(r),
         direct_amount |-> SumAmounts(txns), direct_count |-> Len(txns),
         children |-> [i \in 1..Len(named) |-> SectionOfNamedRow(named[i])],
         transactions |-> txns]

C5_NamedSectionAsDescribed ==
    pc = "parsed" =>
        \A i \in 1..Len(SectionRowsIn(rows)) :
            IsNamedRow(SectionRowsIn(rows)[i]) =>
                /\ i <= Len(sections)
                /\ sections[i] = SectionOfNamedRow(SectionRowsIn(rows)[i])

(***************************************************************************)
(* C7.  A Data row with an empty or short column list, with "Beginning     *)
(* Balance" in column 0 or with an empty or non-numeric column 6 yields no *)
(* transaction and changes the parse of no other row; for every other Data *)
(* row directly inside a Section row the parser builds exactly one         *)
(* transaction, whose amount is the numeric value of column 6, in the      *)
(* section it builds for that Section row.                                 *)
(***************************************************************************)
C7_MalformedRowsSkipped ==
    pc = "parsed" =>
        /\ \A r \in AllRows(rows) :
             r.type = "Data" =>
                LET t == _parse_txn_from_row(r.ColData)
                IN  IF Malformed(r.ColData) THEN t = <<>>
                    ELSE /\ Len(t) = 1
                         /\ t[1].amount = float(r.ColData[7].value).val
        /\ \A r \in AllRows(rows) :
             r.type = "Section" =>
                Amounts(DirectTxns(r)) = Col6Values(AcceptedRowsIn(r.Rows))
        /\ Len(sections) = Len(SectionRowsIn(rows))
        /\ \A i \in 1..Len(sections) :
             LET accepted == AcceptedRowsIn(SectionRowsIn(rows)[i].Rows)
             IN  /\ Len(sections[i].transactions) >= Len(accepted)
                 /\ Amounts(SubSeq(sections[i].transactions, 1, Len(accepted)))
                      = Col6Values(accepted)
        /\ sections = _parse_gl_rows(CleanRows(rows))

\* a section was parsed whose Section row holds a malformed row before an
\* accepted one
C7_Witness ==
    /\ pc = "parsed"
    /\ \E i \in 1..Len(sections) :
         LET rs == RowList(SectionRowsIn(rows)[i].Rows)
         IN  /\ Len(rs) >= 2
             /\ rs[1].type = "Data" /\ Malformed(rs[1].ColData)
             /\ IsAcceptedRow(rs[2])
             /\ sections[i].direct_count = 1

RECURSIVE CountAccepted(_)
\* the accepted Data rows that lie directly inside a Section row, at any depth
CountAccepted(rs) ==
    IF rs = <<>> THEN 0
    ELSE (IF Head(rs).type = "Section"
          THEN Len(AcceptedRowsIn(Head(rs).Rows)) + CountAccepted(RowList(Head(rs).Rows))
          ELSE 0) + CountAccepted(Tail(rs))

NoSentinelHeader == \A r \in AllRows(rows) : r.type = "Section" => HeaderName(r) # S_direct

\* C7 as first stated: every accepted Data row directly inside a Section row
\* is a transaction of the result
C7_EveryAcceptedRowInResult ==
    pc = "parsed" /\ NoSentinelHeader =>
        SumTotalCount(sections) = CountAccepted(RowList(rows))

(***************************************************************************)
(* Vocabulary of the properties of the lookup and of the subtotal.         *)
(***************************************************************************)
RECURSIVE PreOrder(_)
\* the records of a forest (sections or account nodes), parents before
\* children, siblings in list order
PreOrder(xs) ==
    IF xs = <<>> THEN <<>>
    ELSE <<Head(xs)>> \o PreOrder(Head(xs).children) \o PreOrder(Tail(xs))

NameMatches(s, name) == s.name = name \/ endswith(s.name, <<" ">> \o name)

\* the section a name resolves to: the first one, parents before children,
\* whose name is the name or ends with " " + name; None when there is none
Matching(ss, name) ==
    LET p == PreOrder(ss)
        hits == {i \in 1..Len(p) : NameMatches(p[i], name)}
    IN  IF hits = {} THEN None
        ELSE <<p[CHOOSE i \in hits : \A j \in hits : i <= j]>>

\* what one account node adds to the subtotal of the tree it is in
Contribution(ss, node) ==
    LET m == Matching(ss, node.name)
    IN  IF m = None THEN <<0, 0>>
        ELSE IF node.children = <<>>
        THEN <<SumAmounts(all_transactions(m[1])), Len(all_transactions(m[1]))>>
        ELSE <<SumAmounts(m[1].transactions), Len(m[1].transactions)>>

RECURSIVE SumContributions(_, _)
SumContributions(ss, nodes) ==
    IF nodes = <<>> THEN <<0, 0>>
    ELSE LET c == Contribution(ss, Head(nodes))
             r == SumContributions(ss, Tail(nodes))
         IN  <<c[1] + r[1], c[2] + r[2]>>

(***************************************************************************)
(* C2.  _compute_subtotal(gl_sections, node) is the sum, over the nodes of *)
(* the account tree under node, of: the amounts and the number of all the  *)
(* transactions of the matching section and of its descendants, for a node *)
(* without children; the amounts and the number of the own transactions of *)
(* the matching section, for a node with children; (0, 0) for a node       *)
(* without a matching section.  On the nested Revenue report of the tests  *)
(* the subtotal of the Revenue node is (27200, 5).                         *)
(***************************************************************************)
C2_SubtotalIsSumOfContributions ==
    out.op = "subtotal" =>
        /\ out.subtotal = SumContributions(sections, PreOrder(<<tree>>))
        /\ (rows = gl_report_nested /\ tree = RevenueNode) =>
               out.subtotal = <<27200, 5>>

\* the subtotal of a node with children was computed: the section of the node
\* has own transactions and sub-sections with transactions, a child without
\* children resolves to a section with transactions, another child resolves
\* to no section
C2_Witness ==
    /\ out.op = "subtotal"
    /\ tree.children # <<>>
    /\ LET m == Matching(sections, tree.name)
       IN  /\ m # None
           /\ m[1].direct_count > 0
           /\ total_count(m[1]) > m[1].direct_count
    /\ \E i \in 1..Len(tree.children) :
         LET c == tree.children[i]
             m == Matching(sections, c.name)
         IN  c.children = <<>> /\ m # None /\ total_count(m[1]) > 0
    /\ \E i \in 1..Len(tree.children) :
         Matching(sections, tree.children[i].name) = None
    /\ out.subtotal[2] > 0

(***************************************************************************)
(* C3.  A lookup for an account node whose id is the id of some section    *)
(* returns a section with that id, also when the name of the node resolves *)
(* to another section.                                                     *)
(***************************************************************************)
HasId(ss, id) == \E s \in AllSections(ss) : s.id = id

C3_IdPreferred ==
    (out.op = "find" /\ out.id # <<>> /\ HasId(sections, out.id)) =>
        (out.section # None /\ out.section[1].id = out.id)

(***************************************************************************)
(* C4.  A lookup for an account node whose id is the id of no section      *)
(* returns a section named exactly as the node when there is one, whatever *)
(* the order of the sections; otherwise a section whose name ends with     *)
(* " " + the name when there is one; otherwise None.                       *)
(***************************************************************************)
HasExact(ss, name) == \E s \in AllSections(ss) : s.name = name
HasSuffix(ss, name) == \E s \in AllSections(ss) : endswith(s.name, <<" ">> \o name)

C4_ExactBeforeSuffix ==
    (out.op = "find" /\ ~HasId(sections, out.id)) =>
        IF HasExact(sections, out.name)
        THEN out.section # None /\ out.section[1].name = out.name
        ELSE IF HasSuffix(sections, out.name)
        THEN out.section # None /\ endswith(out.section[1].name, <<" ">> \o out.name)
        ELSE out.section = None

(***************************************************************************)
(* C6.  Whenever the properties of a section are read, whatever was parsed *)
(* or assigned before: total_amount is the sum of direct_amount over the   *)
(* section and all its descendants (direct_amount plus the total_amount of *)
(* the children), total_count is the same sum of direct_count, and         *)
(* all_transactions is as long as the transactions lists of the section    *)
(* and of all its descendants together; the values are those of the fields *)
(* at the time of the read.                                                *)
(***************************************************************************)
C6_TotalsRecomputed ==
    [][(pc = "parsed" /\ sections' = sections /\ out'.op = "read") =>
          LET s == At(sections', out'.path)
              all == PreOrder(<<s>>)
              r == out'.result
          IN  /\ r.total_amount = SumDirectAmount(all)
              /\ r.total_amount = s.direct_amount + SumDirectAmount(PreOrder(s.children))
              /\ r.total_count = SumDirectCount(all)
              /\ Len(r.all_transactions) = Len(ExtendTransactions(all))
              /\ Len(r.all_transactions) =
                     Len(s.transactions) + Len(ExtendTransactions(PreOrder(s.children)))
      ]_vars

\* a section with a grandchild was read, edited and read again: the second
\* read counts the amount, the count and the transaction assigned to the
\* grandchild
C6_Witness ==
    /\ out.op = "read"
    /\ out.again
    /\ LET s == At(sections, out.path)
       IN  /\ s.children # <<>>
           /\ s.children[1].children # <<>>
           /\ s.children[1].children[1].direct_amount = T1.amount
           /\ s.children[1].children[1].direct_count = 1
           /\ s.children[1].children[1].transactions = <<T1>>
           /\ s.direct_amount # 0
           /\ out.result.total_amount = SumDirectAmount(PreOrder(<<s>>))

(***************************************************************************)
(* Vocabulary of the properties of the renderers.                          *)
(***************************************************************************)
RECURSIVE WithDepth(_, _)
\* the nodes of a forest of account nodes with their depth, parents before
\* children
WithDepth(nodes, d) ==
    IF nodes = <<>> THEN <<>>
    ELSE <<[node |-> Head(nodes), depth |-> d]>>
         \o WithDepth(Head(nodes).children, d + 1)
         \o WithDepth(Tail(nodes), d)

HasSubtotal(e) == _compute_subtotal(sections, e.node) # <<0, 0>>

StartsWith(s, pre) == Len(s) >= Len(pre) /\ SubSeq(s, 1, Len(pre)) = pre

\* the line is a "Total for" line
IsTotalLine(line) == StartsWith(lstrip(line), S_TotalFor)
IsOwnLine(line) == ~IsTotalLine(line)

\* the line is the own line of the node e.node at depth e.depth: the bare
\* name, or the name followed by " (count)" and an amount
IsLineOf(line, e) ==
    LET start == Spaces(2 * e.depth) \o e.node.name
    IN  line = start \/ StartsWith(line, start \o <<" ", "(">>)

\* the tree renderer's output for the state
TreeLines(currency) == _build_report_lines(sections, tree, currency, 0, <<>>, FALSE)

RECURSIVE BlockOf(_, _, _)
RECURSIVE BlocksOf(_, _, _)
\* the blocks of a list of nodes, one after the other
BlocksOf(nodes, d, currency) ==
    IF nodes = <<>> THEN <<>>
    ELSE BlockOf(Head(nodes), d, currency) \o BlocksOf(Tail(nodes), d, currency)
\* the block of lines of a node at depth d
BlockOf(node, d, currency) ==
    LET sub == _compute_subtotal(sections, node)
        m == Matching(sections, node.name)
        prefix == Spaces(2 * d)
    IN  IF node.children = <<>>
        THEN _build_report_lines(sections, node, currency, d, <<>>, FALSE)
        ELSE IF sub = <<0, 0>> THEN <<>>
        ELSE <<IF m # None /\ m[1].direct_count > 0
               THEN _pad_line(node.name \o <<" ", "(">> \o str(m[1].direct_count)
                                  \o <<")">>,
                              _format_amount(m[1].direct_amount, currency), prefix)
               ELSE prefix \o node.name>>
             \o BlocksOf(node.children, d + 1, currency)
             \o <<_pad_line(S_TotalFor \o node.name,
                            _format_amount(sub[1], currency), prefix)>>

(***************************************************************************)
(* C8.  In the output of the tree renderer a rendered account node with    *)
(* children is one block of lines: its own line at indent 2*depth (the     *)
(* name with "(direct_count)" and the direct amount when direct_count > 0, *)
(* else the bare name), then the blocks of its children in the order of    *)
(* the account tree at indent 2*(depth+1), then the line "Total for name"  *)
(* at indent 2*depth with the subtotal of the node.                        *)
(***************************************************************************)
C8_NodeIsBlock ==
    (out.op = "lines" /\ ~out.expanded) =>
        out.lines = BlockOf(tree, 0, out.currency)

\* the tree renderer ran on a node with own transactions and two children
\* whose blocks are not empty and differ
C8_Witness ==
    /\ out.op = "lines" /\ ~out.expanded
    /\ Len(tree.children) = 2
    /\ LET m == Matching(sections, tree.name)
       IN  m # None /\ m[1].direct_count > 0
    /\ BlockOf(tree.children[1], 1, out.currency) # <<>>
    /\ BlockOf(tree.children[2], 1, out.currency) # <<>>
    /\ BlockOf(tree.children[1], 1, out.currency)
           # BlockOf(tree.children[2], 1, out.currency)
    /\ IsTotalLine(out.lines[Len(out.lines)])

(***************************************************************************)
(* C9.  The tree renderer gives a line to an account node exactly when the *)
(* subtotal of the node is not (0, 0): the own lines of the output are, in *)
(* order, those of the nodes of the tree with a subtotal amount or a       *)
(* subtotal count other than zero, so a node with both zero has no line    *)
(* and its descendants have none, and a node with a count other than zero  *)
(* and an amount of zero has one.                                          *)
(***************************************************************************)
C9_RenderedIffSubtotal ==
    (out.op = "lines" /\ ~out.expanded) =>
        LET own == SelectSeq(out.lines, IsOwnLine)
            shown == SelectSeq(WithDepth(<<tree>>, 0), HasSubtotal)
        IN  /\ Len(own) = Len(shown)
            /\ \A k \in 1..Len(own) : IsLineOf(own[k], shown[k])

\* the tree renderer ran on a tree with a node whose subtotal is (0, 0) and a
\* node whose amounts cancel to zero over a count that is not zero
C9_Witness ==
    /\ out.op = "lines" /\ ~out.expanded
    /\ LET all == WithDepth(<<tree>>, 0)
       IN  /\ \E k \in 1..Len(all) : ~HasSubtotal(all[k])
           /\ \E k \in 1..Len(all) :
                LET sub == _compute_subtotal(sections, all[k].node)
                IN  sub[1] = 0 /\ sub[2] > 0
    /\ out.lines # <<>>

(***************************************************************************)
(* Vocabulary of the properties of the expanded renderer.                  *)
(***************************************************************************)
\* the line is a transaction line: its label starts with a date
IsTxnLine(line) == lstrip(line) # <<>> /\ IsDigit(Head(lstrip(line)))
DateOf(line) == SubSeq(lstrip(line), 1, 10)

RECURSIVE RunLen(_)
\* the number of transaction lines a list of lines starts with
RunLen(ls) ==
    IF ls = <<>> \/ ~IsTxnLine(Head(ls)) THEN 0 ELSE 1 + RunLen(Tail(ls))

RECURSIVE Segments(_)
\* the lines cut before every line that is not a transaction line: each
\* such line with the transaction lines that follow it
Segments(ls) ==
    IF ls = <<>> THEN <<>>
    ELSE LET n == RunLen(Tail(ls))
         IN  <<[line |-> Head(ls), txns |-> SubSeq(ls, 2, n + 1)]>>
             \o Segments(SubSeq(ls, n + 2, Len(ls)))

Count(seq, x) == Cardinality({i \in 1..Len(seq) : seq[i] = x})

\* the expanded output is the tree output with, after the own line of every
\* node, one line per transaction of the node in ascending order of date;
\* the transactions of a node with children are the own transactions of its
\* section; those of a node without children are the own transactions too,
\* or (leafAll) those of the section and of all its descendants
ExpandedIsTreePlusTxns(leafAll) ==
    (out.op = "lines" /\ out.expanded) =>
        LET T == TreeLines(out.currency)
            segs == Segments(out.lines)
            shown == SelectSeq(WithDepth(<<tree>>, 0), HasSubtotal)
        IN  /\ out.lines # <<>> => ~IsTxnLine(out.lines[1])
            /\ [k \in 1..Len(segs) |-> segs[k].line] = T
            /\ \A k \in 1..Len(segs) :
                 LET run == segs[k].txns
                 IN  IF IsTotalLine(T[k]) THEN run = <<>>
                     ELSE LET e == shown[Len(SelectSeq(SubSeq(T, 1, k), IsOwnLine))]
                              m == Matching(sections, e.node.name)
                              txns == IF m = None THEN <<>>
                                      ELSE IF leafAll /\ e.node.children = <<>>
                                      THEN all_transactions(m[1])
                                      ELSE m[1].transactions
                              want == [i \in 1..Len(txns) |->
                                          TxnLine(txns[i], out.currency, e.depth + 1)]
                          IN  /\ Len(run) = Len(want)
                              /\ \A i \in 1..Len(run) :
                                   Count(run, run[i]) = Count(want, run[i])
                              /\ \A i \in 1..(Len(run) - 1) :
                                   ~StrLess(DateOf(run[i + 1]), DateOf(run[i]))

(***************************************************************************)
(* C10.  For the same sections, account tree and currency the output of    *)
(* the expanded renderer is the output of the tree renderer with, right    *)
(* after the own line of every node, one line per transaction in ascending *)
(* order of date: the own transactions of the matching section for a node  *)
(* with children, the transactions of the matching section and of all its  *)
(* descendants for a node without children.  Without the transaction lines *)
(* it is the output of the tree renderer, line for line.                   *)
(***************************************************************************)
C10_ExpandedIsTreePlusTxns == ExpandedIsTreePlusTxns(TRUE)

\* the expanded renderer ran on a node with own transaction lines and a child
\* without children whose section has transactions in a sub-section and not
\* in order of date
C10_Witness ==
    /\ out.op = "lines" /\ out.expanded
    /\ tree.children # <<>>
    /\ LET m == Matching(sections, tree.name)
       IN  m # None /\ m[1].transactions # <<>>
    /\ \E i \in 1..Len(tree.children) :
         LET c == tree.children[i]
             m == Matching(sections, c.name)
         IN  /\ c.children = <<>>
             /\ m # None
             /\ Len(all_transactions(m[1])) > Len(m[1].transactions)
             /\ \E j \in 1..(Len(all_transactions(m[1])) - 1) :
                  StrLess(all_transactions(m[1])[j + 1].date,
                          all_transactions(m[1])[j].date)
    /\ Len(out.lines) > Len(TreeLines(out.currency))

\* C10 as stated: the transaction lines after the own line of a node are those
\* of the own transactions of its section, never those of its descendants
C10_OnlyDirectTxns == ExpandedIsTreePlusTxns(FALSE)

(***************************************************************************)
(* Reading a flat ledger: the header and a rule, the lines of the          *)
(* transactions with their memo lines, a rule and the footer.              *)
(***************************************************************************)
LedgerBody(lines) == SubSeq(lines, 3, Len(lines) - 2)
\* a memo line starts with blanks, the line of a transaction with its date
IsLedgerTxnLine(line) == line # <<>> /\ IsDigit(line[1])
LedgerTxnLines(lines) == SelectSeq(LedgerBody(lines), IsLedgerTxnLine)
\* the amount column of the line of a transaction
AmountField(line) == lstrip(SubSeq(line, 29, 42))

\* the number a formatted amount stands for: sign, currency, grouped whole
\* part, ".00"
ReadAmount(s, currency) ==
    LET neg == s # <<>> /\ s[1] = "-"
        u == IF neg THEN Tail(s) ELSE s
        v == SubSeq(u, Len(currency) + 1, Len(u))
        whole == SelectSeq(SubSeq(v, 1, Len(v) - 3), IsDigit)
    IN  IF neg THEN 0 - DigitsValue(whole) ELSE DigitsValue(whole)

RECURSIVE SumListed(_, _)
\* the sum of the amounts shown on the lines of transactions
SumListed(lines, currency) ==
    IF lines = <<>> THEN 0
    ELSE ReadAmount(AmountField(Head(lines)), currency)
         + SumListed(Tail(lines), currency)

\* the transactions of the section of the account and of its descendants
LedgerTxns ==
    LET m == _find_gl_section(sections, tree.name)
    IN  IF m = None THEN <<>> ELSE all_transactions(m[1])

\* C11: the flat ledger lists every transaction of the matched section and
\* of its descendants exactly once, in non-decreasing date order, and its
\* footer shows the sum of the listed amounts and their number; when the
\* section is not found or has no transactions the ledger is the single
\* line "(no transactions)".
C11_FlatLedger ==
    out.op = "txns" =>
        LET all == LedgerTxns
            ls == out.lines
            listed == LedgerTxnLines(ls)
        IN  IF all = <<>> THEN ls = <<S_NoTransactions>>
            ELSE /\ Len(ls) >= 5
                 /\ ls[1] = TxnsHeader /\ ls[2] = Rule /\ ls[Len(ls) - 1] = Rule
                 /\ Len(listed) = Len(all)
                 /\ \A k \in 1..Len(all) :
                        Count(listed, TxnsRow(all[k], out.currency))
                        = Cardinality({i \in 1..Len(all) :
                              TxnsRow(all[i], out.currency)
                              = TxnsRow(all[k], out.currency)})
                 /\ \A i, j \in 1..Len(listed) :
                        i < j => ~StrLess(DateOf(listed[j]), DateOf(listed[i]))
                 /\ ls[Len(ls)] = TxnsFooter(SumListed(listed, out.currency),
                                             Len(listed), out.currency)

\* a ledger of an account whose section has a sub-section with transactions,
\* a later date before an earlier one in the report, and a memo line
C11_Witness ==
    /\ out.op = "txns"
    /\ LET m == _find_gl_section(sections, tree.name)
       IN  /\ m # None
           /\ Len(m[1].transactions) >= 1
           /\ Len(LedgerTxns) > Len(m[1].transactions)
           /\ \E i, j \in 1..Len(LedgerTxns) :
                  i < j /\ StrLess(LedgerTxns[j].date, LedgerTxns[i].date)
           /\ \E i \in 1..Len(LedgerTxns) : LedgerTxns[i].memo # <<>>
    /\ Len(out.lines) > Len(LedgerTxns) + 4

(***************************************************************************)
(* Reading a by-customer report: the account name, an empty line, one line *)
(* "customer (count)   amount" per group, an empty line, the TOTAL line.   *)
(***************************************************************************)
GroupLines(lines) == SubSeq(lines, 3, Len(lines) - 2)

RECURSIVE AfterLast(_, _)
\* the part of s after the last occurrence of the character c
AfterLast(s, c) ==
    IF \A i \in 1..Len(s) : s[i] # c THEN s ELSE AfterLast(Tail(s), c)

\* the amount a line ends with, and the label it starts with
AmountOfLine(line, currency) == ReadAmount(AfterLast(line, " "), currency)
LabelOfLine(line) == rstrip(SubSeq(line, 1, Len(line) - Len(AfterLast(line, " "))))
\* the count and the name of the label "name (count)"
CountOfLabel(label) == DigitsValue(SelectSeq(AfterLast(label, "("), IsDigit))
NameOfLabel(label) == SubSeq(label, 1, Len(label) - Len(AfterLast(label, "(")) - 2)

RECURSIVE SumSeq(_)
SumSeq(xs) == IF xs = <<>> THEN 0 ELSE Head(xs) + SumSeq(Tail(xs))

\* C12: the by-customer report has one line per customer of the
\* transactions of the matched section and its descendants (empty customer
\* shown as "(no customer)"), every transaction counted in exactly one
\* group; the lines are in non-increasing order of the absolute value of
\* the group sum; the counts of the groups add up to the count of the TOTAL
\* line and the sums of the groups to its amount.
C12_ByCustomerPartition ==
    (out.op = "by_customer" /\ LedgerTxns # <<>>) =>
        LET all == LedgerTxns
            g == GroupLines(out.lines)
            name == [i \in 1..Len(g) |-> NameOfLabel(LabelOfLine(g[i]))]
            cnt == [i \in 1..Len(g) |-> CountOfLabel(LabelOfLine(g[i]))]
            amt == [i \in 1..Len(g) |-> AmountOfLine(g[i], out.currency)]
            Key(t) == IF t.customer = <<>> THEN S_NoCustomer ELSE t.customer
            members(i) == {k \in 1..Len(all) : Key(all[k]) = name[i]}
            total == out.lines[Len(out.lines)]
        IN  /\ Len(out.lines) >= 5
            /\ \A k \in 1..Len(all) :
                   Cardinality({i \in 1..Len(g) : k \in members(i)}) = 1
            /\ \A i \in 1..Len(g) :
                   /\ members(i) # {}
                   /\ cnt[i] = Cardinality(members(i))
                   /\ amt[i] = SumAmounts(SelectSeq(all, LAMBDA t : Key(t) = name[i]))
            /\ \A i, j \in 1..Len(g) : i < j => Abs(amt[i]) >= Abs(amt[j])
            /\ NameOfLabel(LabelOfLine(total)) = S_TOTAL
            /\ CountOfLabel(LabelOfLine(total)) = SumSeq(cnt)
            /\ SumSeq(cnt) = Len(all)
            /\ AmountOfLine(total, out.currency) = SumSeq(amt)
            /\ SumSeq(amt) = SumAmounts(all)

\* a report of several groups, one of them "(no customer)", one of two
\* transactions, where the customer of the first transaction is not on the
\* first line and a negative sum precedes a smaller positive one
C12_Witness ==
    /\ out.op = "by_customer"
    /\ LedgerTxns # <<>>
    /\ LET g == GroupLines(out.lines)
           name == [i \in 1..Len(g) |-> NameOfLabel(LabelOfLine(g[i]))]
           amt == [i \in 1..Len(g) |-> AmountOfLine(g[i], out.currency)]
       IN  /\ Len(g) >= 2
           /\ \E i \in 1..Len(g) : name[i] = S_NoCustomer
           /\ \E i \in 1..Len(g) : CountOfLabel(LabelOfLine(g[i])) = 2
           /\ name[1] # CustKey(LedgerTxns[1])
           /\ \E i, j \in 1..Len(g) : i < j /\ amt[i] < 0 /\ amt[j] > 0 /\ amt[j] < 0 - amt[i]

(***************************************************************************)
(* The account tree and the flat list of accounts it was built from.       *)
(***************************************************************************)
\* the positions in all_accts of the accounts whose ParentRef is the id
ChildrenIn(accts, id) == {k \in 1..Len(accts) : accts[k].ParentRef = <<id>>}

\* C13: in the tree the builder returns, the children of every node are
\* exactly the accounts whose ParentRef value is the id of the node, each
\* once and under its own name, and they are in ascending order of name,
\* whatever the order of the list of accounts.
C13_ChildrenByParentRefSorted ==
    pc = "built" =>
        \A node \in NodesOf(tree) :
            LET kids == node.children
                exp == ChildrenIn(all_accts, node.id)
            IN  /\ Len(kids) = Cardinality(exp)
                /\ \A k \in exp :
                       Cardinality({j \in 1..Len(kids) :
                           /\ kids[j].id = all_accts[k].Id
                           /\ kids[j].name = all_accts[k].Name}) = 1
                /\ \A i, j \in 1..Len(kids) :
                       i < j => ~StrLess(kids[j].name, kids[i].name)

\* a tree whose root has two children that the list of accounts holds in
\* descending order of name
C13_Witness ==
    /\ pc = "built"
    /\ Len(tree.children) = 2
    /\ StrLess(tree.children[1].name, tree.children[2].name)
    /\ \E i, j \in 1..Len(all_accts) :
           /\ i < j
           /\ all_accts[i].Id = tree.children[2].id
           /\ all_accts[j].Id = tree.children[1].id

(***************************************************************************)
(* The end of the command, and cycles of parent references.                *)
(***************************************************************************)
Ended == pc \in {"done", "fatal", "RecursionError"}
\* the tree builder was called: the root of the tree is known
TreeStarted == pc \notin {"start", "account"} /\ tree # NoTree

\* the ids of the accounts whose ParentRef is the id
KidIds(id) == {all_accts[k].Id : k \in ChildrenIn(all_accts, id)}
RECURSIVE DescIds(_, _)
DescIds(ids, k) ==
    IF k = 0 THEN ids
    ELSE DescIds(ids \cup UNION {KidIds(i) : i \in ids}, k - 1)
\* the ids below the id: children, their children, ...
Below(id) == DescIds(KidIds(id), Len(all_accts))
\* a cycle of parent references is reachable from the root of the tree
CycleReachable == \E d \in {tree.id} \cup Below(tree.id) : d \in Below(d)

\* C14 (as the code behaves): the command always ends.  The tree builder
\* returns a tree when no cycle of parent references is reachable from the
\* root; when one is, its recursion has no guard and goes on until the
\* recursion limit of the interpreter ends the command with a
\* RecursionError, and no tree is returned.  Parsing and rendering end.
C14_ConstructionEnds ==
    /\ <>Ended
    /\ [](pc = "RecursionError" => CycleReachable)
    /\ []((TreeStarted /\ CycleReachable) => pc \in {"children", "RecursionError"})
    /\ ((pc = "children" /\ ~CycleReachable) ~> pc = "built")
    /\ ((pc = "children" /\ CycleReachable) ~> pc = "RecursionError")
    /\ (pc = "fetched" ~> pc = "done")

\* the builder is at work on accounts with a reachable cycle, at the depth
\* the interpreter allows
C14_Witness ==
    /\ pc = "RecursionError"
    /\ CycleReachable
    /\ Len(stack) = RecursionLimit
\* C14 (as stated): when a cycle of parent references is reachable from the
\* root, the construction of the tree does not terminate: the command stays
\* in build_children for ever.
C14_CycleNeverEnds ==
    (TreeStarted /\ CycleReachable) => pc = "children"

\* the account reference is textual and no account name contains it
ZeroAccountMatches ==
    /\ args.account # <<>>
    /\ ~isdigit(args.account[1])
    /\ \A k \in 1..Len(all_accts) :
           ~Contains(lower(all_accts[k].Name), lower(args.account[1]))

\* C15: when the textual account reference matches no account, the command
\* ends in the fatal state: the report is never fetched, no row is parsed
\* and no report line is printed.
C15_NoAccountIsFatal ==
    /\ [](ZeroAccountMatches =>
            /\ pc \in {"start", "account", "fatal"}
            /\ rows = NotFetched /\ options = <<>>
            /\ tree = NoTree /\ stack = <<>>
            /\ sections = <<>>
            /\ out = NoOut)
    /\ (ZeroAccountMatches ~> pc = "fatal")
    /\ [][(pc = "fatal") => UNCHANGED vars]_vars

\* the command died of a textual reference no account of a company with
\* accounts matches
C15_Witness ==
    /\ pc = "fatal"
    /\ ZeroAccountMatches
    /\ all_accts # <<>>
    /\ stderr # <<>>
    /\ stderr[Len(stderr)].msg = "No account found matching"

\* the fetched report carries the option NoReportData = "true"
CarriesNoReportData ==
    \E i \in 1..Len(options) :
        options[i] = [Name |-> "NoReportData", Value |-> "true"]

\* C16: when the fetched report carries NoReportData = "true", the command
\* ends in the fatal state, _parse_gl_rows is never invoked and no report
\* output is produced.
C16_NoReportDataIsFatal ==
    /\ [](CarriesNoReportData =>
            /\ pc \in {"check", "fatal"}
            /\ sections = <<>>
            /\ out = NoOut)
    /\ (CarriesNoReportData ~> pc = "fatal")
    /\ [][(pc = "fatal") => UNCHANGED vars]_vars

\* the command died of a report with rows whose second option is
\* NoReportData = "true"
C16_Witness ==
    /\ pc = "fatal"
    /\ Len(options) = 2
    /\ CarriesNoReportData
    /\ rows # RowsEmptyMap
    /\ stderr[Len(stderr)].msg = "No data found for the specified filters."

\* the accounts and the customers a textual reference matches
AccountCandidates ==
    IF args.account = <<>> \/ isdigit(args.account[1]) THEN <<>>
    ELSE SelectSeq(all_accts,
             LAMBDA a : Contains(lower(a.Name), lower(args.account[1])))
CustomerCandidates ==
    IF args.customer = <<>> \/ isdigit(args.customer[1]) THEN <<>>
    ELSE LET eq == SelectSeq(qbo.customers,
                       LAMBDA c : c.DisplayName = args.customer[1])
         IN  IF eq # <<>> THEN eq
             ELSE SelectSeq(qbo.customers,
                      LAMBDA c : Contains(lower(c.DisplayName),
                                          lower(args.customer[1])))
\* the record a reference is resolved to: the first whose name equals the
\* reference, letter case ignored, else the first
Preferred(cands, ref, Name(_)) ==
    LET same == SelectSeq(cands, LAMBDA r : lower(Name(r)) = lower(ref))
    IN  IF same # <<>> THEN same[1] ELSE cands[1]
AccountName(a) == a.Name
CustomerName(c) == c.DisplayName
\* every candidate is named in a line of stderr
Surfaced(cands) ==
    \A k \in 1..Len(cands) :
        \E i \in 1..Len(stderr) :
            stderr[i].msg = "ID= Name=" /\ stderr[i].id = cands[k].Id

\* the customer was resolved, or none was given, and the account was looked up
AccountLookedUp ==
    /\ pc \notin {"start", "account"}
    /\ \A i \in 1..Len(stderr) :
           stderr[i].msg \notin {"No customer found matching", "API error"}

\* C17: when a textual account or customer reference matches more than
\* one record, the resolution does not fail: it yields the record whose
\* name equals the reference with letter case ignored, else the first
\* record of the list, and every candidate is written as a diagnostic.
C17_AmbiguousResolved ==
    /\ (pc # "start" /\ Len(CustomerCandidates) > 1) =>
           /\ resolved # <<>>
           /\ resolved[1] = Preferred(CustomerCandidates, args.customer[1],
                                      CustomerName).Id
           /\ Surfaced(CustomerCandidates)
    /\ (AccountLookedUp /\ Len(AccountCandidates) > 1) =>
           /\ tree # NoTree
           /\ tree.id = Preferred(AccountCandidates, args.account[1],
                                  AccountName).Id
           /\ Surfaced(AccountCandidates)

(***************************************************************************)
(* Reading the dates of the command.                                       *)
(***************************************************************************)
YearOf(d) == DigitsValue(SubSeq(d, 1, 4))
MonthOf(d) == DigitsValue(SubSeq(d, 6, 7))
DayOf(d) == DigitsValue(SubSeq(d, 9, 10))
\* the last day of the month of the date: 28 or 29 in February, 30 in
\* April, June, September and November, else 31
LastDayOf(d) ==
    LET y == YearOf(d)
        m == MonthOf(d)
    IN  CASE m = 2 -> (IF y % 4 = 0 /\ (y % 100 # 0 \/ y % 400 = 0)
                       THEN 29 ELSE 28)
          [] m \in {4, 6, 9, 11} -> 30
          [] OTHER -> 31
\* the date names a day of the calendar
IsCalendarDay(d) == DayOf(d) >= 1 /\ DayOf(d) <= LastDayOf(d)
IsMonthStart(d) == DayOf(d) = 1
IsMonthEnd(d) == DayOf(d) = LastDayOf(d)
\* the dates of the command are two days of the calendar
BothDays == IsCalendarDay(args.start) /\ IsCalendarDay(args.end)
Month(d) == MonthNames[MonthOf(d)]

\* the dates are aligned to the months: from a first day to a last day
Aligned == IsMonthStart(args.start) /\ IsMonthEnd(args.end)
SameYear == YearOf(args.start) = YearOf(args.end)
SameMonth == SameYear /\ MonthOf(args.start) = MonthOf(args.end)
Year(d) == str(YearOf(d))
Day(d) == str(DayOf(d))

\* C18: for two dates that are not aligned to the months, the text names
\* the days: "Month d-d, Year" within a month, "Month d-Month d, Year"
\* within a year, "d Month Year-d Month Year" across years.
C18_PartialDatesShowDays ==
    (out.op = "date_range" /\ BothDays /\ ~Aligned) =>
        /\ out.result.ok
        /\ out.result.text =
             IF SameMonth
             THEN Month(args.start) \o <<" ">> \o Day(args.start) \o <<"-">>
                  \o Day(args.end) \o <<",", " ">> \o Year(args.start)
             ELSE IF SameYear
             THEN Month(args.start) \o <<" ">> \o Day(args.start) \o <<"-">>
                  \o Month(args.end) \o <<" ">> \o Day(args.end)
                  \o <<",", " ">> \o Year(args.start)
             ELSE Day(args.start) \o <<" ">> \o Month(args.start) \o <<" ">>
                  \o Year(args.start) \o <<"-">> \o Day(args.end) \o <<" ">>
                  \o Month(args.end) \o <<" ">> \o Year(args.end)

\* C19: from the first day of a month to the last day of a month, the text
\* is "Month, Year" within a month, "Month-Month, Year" within a year and
\* "Month Year-Month Year" across years.
C19_FullMonthsShowNoDays ==
    (out.op = "date_range" /\ BothDays /\ Aligned) =>
        /\ out.result.ok
        /\ out.result.text =
             IF SameMonth
             THEN Month(args.start) \o <<",", " ">> \o Year(args.start)
             ELSE IF SameYear
             THEN Month(args.start) \o <<"-">> \o Month(args.end)
                  \o <<",", " ">> \o Year(args.start)
             ELSE Month(args.start) \o <<" ">> \o Year(args.start) \o <<"-">>
                  \o Month(args.end) \o <<" ">> \o Year(args.end)

\* the text of February of a leap year up to its 29th day
C19_Witness ==
    /\ out.op = "date_range"
    /\ args.start = <<"2", "0", "2", "4", "-", "0", "2", "-", "0", "1">>
    /\ args.end = <<"2", "0", "2", "4", "-", "0", "2", "-", "2", "9">>
    /\ out.result.ok
    /\ Len(out.result.text) = 14


(***************************************************************************)
(* The parts of a padded line.                                             *)
(***************************************************************************)
PartsLen == Len(args.prefix) + Len(args.label) + Len(args.amt_str)
\* the part of the line between the label and the amount
Gap(line) ==
    SubSeq(line, Len(args.prefix) + Len(args.label) + 1,
           Len(line) - Len(args.amt_str))

\* C20: _pad_line returns prefix, label, k spaces and the amount, with
\* k = max(1, 72 - (len(prefix) + len(label) + len(amount))): the line has
\* 72 characters when the parts have at most 71, else one more than the
\* parts; the amount ends the line; label and amount are whole.
C20_PadLine ==
    out.op = "pad_line" =>
        LET line == out.line
            k == IF 72 - PartsLen > 1 THEN 72 - PartsLen ELSE 1
        IN  /\ Len(line) = IF PartsLen <= 71 THEN 72 ELSE PartsLen + 1
            /\ SubSeq(line, 1, Len(args.prefix)) = args.prefix
            /\ SubSeq(line, Len(args.prefix) + 1,
                      Len(args.prefix) + Len(args.label)) = args.label
            /\ SubSeq(line, Len(line) - Len(args.amt_str) + 1, Len(line))
               = args.amt_str
            /\ Len(Gap(line)) = k
            /\ \A i \in 1..Len(Gap(line)) : Gap(line)[i] = " "

\* a line whose parts have 72 characters or more
C20_Witness ==
    /\ out.op = "pad_line"
    /\ PartsLen >= 72
    /\ args.prefix # <<>>
    /\ Len(out.line) = PartsLen + 1


(***************************************************************************)
(* Rows objects without rows.                                              *)
(***************************************************************************)
\* None, {}, a mapping without "Row", {"Row": []}
RowsWithoutRows == {RowsNone, RowsEmptyMap, RowsOtherMap, RowsOf(<<>>)}

\* C21: for a Rows object that is None, an empty mapping, a mapping
\* without a Row key or a mapping whose Row list is empty, _parse_gl_rows
\* returns the empty list: the parse ends, with no section.
C21_NoRowsNoSections ==
    /\ (rows \in RowsWithoutRows /\ pc = "fetched") => ENABLED Parse
    /\ (rows \in RowsWithoutRows /\ pc = "parsed") => sections = <<>>

\* the parse of a mapping that has other keys but no "Row"
C21_Witness ==
    /\ pc = "parsed"
    /\ rows = RowsOtherMap
    /\ sections = <<>>

(***************************************************************************)
(* Vocabulary of the properties of QBOClient.query.                        *)
(***************************************************************************)
W_MAXRESULTS == <<"M", "A", "X", "R", "E", "S", "U", "L", "T", "S">>
W_STARTPOSITION == <<"S", "T", "A", "R", "T", "P", "O", "S", "I", "T", "I", "O", "N">>
\* the SQL of the caller names a page itself
HasPagingClause(sql) == Contains(sql, W_MAXRESULTS) \/ Contains(sql, W_STARTPOSITION)
\* the clause of page k: " STARTPOSITION 1", then 1001, 2001, ...
PageClause(k) ==
    S_STARTPOSITION \o (IF k = 1 THEN <<"1">> ELSE str(k - 1) \o <<"0", "0", "1">>)
    \o S_MAXRESULTS \o <<"1", "0", "0", "0">>
\* the entities of the page answered to request i: the first list of its
\* QueryResponse, none when there is no QueryResponse or no list in it
PageEntities(i) ==
    LET data == http[i].response[1]
        lists == IF data.hasQueryResponse
                 THEN SelectSeq(data.QueryResponse, LAMBDA it : it.is_list)
                 ELSE <<>>
    IN  IF lists = <<>> THEN <<>> ELSE lists[1].val
Answered(i) == http[i].response # <<>>
RECURSIVE PagesUpTo(_)
\* the entities of the pages 1..n, in the order of the requests
PagesUpTo(n) == IF n = 0 THEN <<>> ELSE PagesUpTo(n - 1) \o PageEntities(n)

\* C22: for an SQL text without a paging clause, request i of query carries
\* the SQL followed by " STARTPOSITION 1000(i-1)+1 MAXRESULTS 1000"; a
\* further page is requested exactly when the page before was answered with
\* exactly 1000 entities and fewer than max_pages pages were requested; never
\* more than max_pages requests are sent; the list returned is the
\* concatenation of the entities of the pages in the order of the requests
\* (the empty list for an empty QueryResponse).
C22_AutoPagination ==
    (pc \in {"query", "request", "returned", "exit"} /\ ~HasPagingClause(client.sql)) =>
        /\ Len(http) <= client.max_pages
        /\ \A i \in 1..Len(http) : http[i].query = client.sql \o PageClause(i)
        /\ \A i \in 1..(Len(http) - 1) :
              Answered(i) /\ Len(PageEntities(i)) = 1000
        /\ (pc = "query") <=>
              (/\ \A i \in 1..Len(http) : Answered(i) /\ Len(PageEntities(i)) = 1000
               /\ out = NoOut)
        /\ (pc = "query") => (ENABLED QueryRequest <=> Len(http) < client.max_pages)
        /\ (pc = "returned") =>
              /\ \A i \in 1..Len(http) : Answered(i)
              /\ \/ Len(http) = client.max_pages
                 \/ Len(PageEntities(Len(http))) < 1000
              /\ out.value = PagesUpTo(Len(http))
\* three pages were requested; the third, of one entity, ended the call
C22_Witness ==
    /\ pc = "returned"
    /\ client.sql = SQL_Customers
    /\ client.max_pages > 2
    /\ Len(http) = 3
    /\ Len(out.value) = 2001
    /\ out.value[2001] = Entity(2, 1)

\* C23: when the SQL of the caller contains MAXRESULTS or STARTPOSITION,
\* query sends exactly one request and its query parameter is the SQL of
\* the caller, unmodified.
C23_UserPagingForwarded ==
    (pc = "returned" /\ HasPagingClause(client.sql) /\ client.max_pages > 0) =>
        /\ Len(http) = 1
        /\ http[1].query = client.sql

(***************************************************************************)
(* Vocabulary of the properties of request and of the token manager.       *)
(***************************************************************************)
\* the places in http of the API requests of p, and of its token requests
ApiRequestsOf(p) == {i \in 1..Len(http) : http[i].url = "api" /\ http[i].by = p}
TokenRequests == {i \in 1..Len(http) : http[i].url = "token"}
TokenRequestsOf(p) == {i \in TokenRequests : http[i].by = p}
\* the place of attempt n of p (attempts are numbered from 0)
AttemptOf(p, n) == CHOOSE i \in ApiRequestsOf(p) : http[i].attempt = n
Attempted(p, n) == \E i \in ApiRequestsOf(p) : http[i].attempt = n
\* attempt n of p was answered with status 401
Got401(p, n) ==
    /\ Attempted(p, n)
    /\ http[AttemptOf(p, n)].response # <<>>
    /\ http[AttemptOf(p, n)].response[1].kind = "response"
    /\ http[AttemptOf(p, n)].response[1].status_code = 401
\* the call of p is over
CallEnded(p) == procs[p].pc \in {"returned", "api_error", "died", "done"}
IsRequest(p) == procs[p].cmd = "request"
\* the calls of _locked_refresh that p made between its two attempts
RefreshesOn401(p) == SelectSeq(procs[p].locked_refreshes, LAMBDA c : c.before = 1)
\* p died in the locked refresh that followed the 401: its last request went
\* to the token endpoint and was refused
DiedRefreshing(p) ==
    /\ procs[p].pc = "died"
    /\ \E i \in TokenRequestsOf(p) :
          /\ http[i].result = "refused"
          /\ \A j \in ApiRequestsOf(p) : j < i

\* at most two attempts; a second one only after a 401 on the first, after
\* exactly one locked refresh, carrying the token that refresh returned
TwoAttemptsAtMost(p) ==
    /\ \A i \in ApiRequestsOf(p) : http[i].attempt \in {0, 1}
    /\ Cardinality(ApiRequestsOf(p)) <= 2
    /\ Attempted(p, 1) =>
          /\ Got401(p, 0)
          /\ Len(RefreshesOn401(p)) = 1
          /\ RefreshesOn401(p)[1].returned = <<http[AttemptOf(p, 1)].Authorization>>

\* C24: request makes at most two HTTP attempts; a second attempt happens if
\* and only if the first returned 401, it is preceded by exactly one locked
\* token refresh and carries the access token returned by that refresh; a
\* 401 on the second attempt is never retried and ends in the API-error exit.
C24_RetryOnceOn401 ==
    \A p \in DOMAIN procs : IsRequest(p) =>
        /\ TwoAttemptsAtMost(p)
        /\ CallEnded(p) => (Attempted(p, 1) <=> Got401(p, 0))
        /\ (CallEnded(p) /\ Got401(p, 1)) => procs[p].pc = "api_error"

\* C24 (amended): as above, except that the second attempt is not made when
\* the locked refresh ends the process (the token endpoint refuses), and a
\* 401 on the second attempt is returned to the caller instead of ending in
\* the API-error exit when raw_response is set.
C24_RetryOnceOn401UnlessRefreshDies ==
    \A p \in DOMAIN procs : IsRequest(p) =>
        /\ TwoAttemptsAtMost(p)
        /\ CallEnded(p) =>
              /\ Attempted(p, 1) => Got401(p, 0)
              /\ Got401(p, 0) => (Attempted(p, 1) \/ DiedRefreshing(p))
        /\ (CallEnded(p) /\ Got401(p, 1)) =>
              procs[p].pc = (IF procs[p].raw_response THEN "returned" ELSE "api_error")
\* both attempts were answered 401, with new tokens granted in between: the
\* call ended in the API-error exit after two attempts
C24_Witness ==
    /\ IsRequest(1)
    /\ procs[1].pc = "api_error"
    /\ Got401(1, 0)
    /\ Got401(1, 1)
    /\ http[AttemptOf(1, 1)].Authorization # http[AttemptOf(1, 0)].Authorization

\* the endpoint is called only by the holder of the lock, one call at a time
EndpointUnderLock ==
    /\ \A p \in DOMAIN procs :
          procs[p].pc \in {"re_read", "do_refresh", "posting", "save", "unlock"} => flock = <<p>>
    /\ \A i \in TokenRequests : http[i].result = "pending" => flock = <<http[i].by>>
    /\ Cardinality({i \in TokenRequests : http[i].result = "pending"}) <= 1
\* a process that holds the lock and re-reads tokens valid beyond the margin
\* returns the stored access token and sends nothing
ReReadValid(p) ==
    (/\ procs[p].pc = "re_read"
     /\ still_valid(token_file, clock)
     /\ procs'[p].pc # "re_read") =>
        /\ procs'[p].pc = "unlock"
        /\ procs'[p].token = <<token_file.access_token>>
        /\ http' = http
        /\ token_file' = token_file
\* no refresh token is submitted twice
SubmittedOnce ==
    \A i, j \in TokenRequests :
        (i < j) => http[i].refresh_token # http[j].refresh_token
\* a refresh token is submitted again only after its submission was refused,
\* or when the tokens it brought are no longer valid beyond the margin
SubmittedOnceUnlessRefusedOrExpired ==
    \A i, j \in TokenRequests :
        (i < j /\ http[i].refresh_token = http[j].refresh_token) =>
            \/ http[i].result = "refused"
            \/ /\ http[i].result = "granted"
               /\ ~(http[j].at < http[i].expires_at - REFRESH_MARGIN_SEC)

\* C26: for any number of processes that find the stored access token
\* expired, the calls of the token endpoint are mutually exclusive (made only
\* while holding the exclusive lock); a process that acquires the lock after
\* another saved tokens valid beyond the refresh margin returns the saved
\* access token without calling the endpoint; so one stored refresh token is
\* submitted to the endpoint at most once.
C26_OneRefreshPerToken ==
    /\ [](EndpointUnderLock /\ SubmittedOnce)
    /\ [][\A p \in DOMAIN procs : ReReadValid(p)]_vars

\* C26 (amended): mutual exclusion and the return of the saved token as
\* above; a stored refresh token is submitted a second time only after its
\* first submission was refused (the process died without saving), or when
\* the tokens saved from it are no longer valid beyond the refresh margin.
C26_OneRefreshPerTokenUnlessRefused ==
    /\ [](EndpointUnderLock /\ SubmittedOnceUnlessRefusedOrExpired)
    /\ [][\A p \in DOMAIN procs : ReReadValid(p)]_vars
\* both processes found the stored token expired; one was granted tokens
\* valid beyond the margin and saved them, the other then got the lock and
\* returned the saved access token without a request of its own
C26_Witness ==
    \E p, q \in DOMAIN procs :
        /\ p # q
        /\ Len(procs[p].locked_refreshes) = 1
        /\ Len(procs[q].locked_refreshes) = 1
        /\ \E i \in TokenRequestsOf(p) :
              /\ http[i].result = "granted"
              /\ token_file.expires_at = http[i].expires_at
              /\ still_valid(token_file, clock)
        /\ TokenRequestsOf(q) = {}
        /\ procs[q].pc = "returned"
        /\ procs[q].token = <<token_file.access_token>>
        /\ token_file.access_token # 1

\* the forced refreshes of p that have returned: every _locked_refresh of
\* `auth refresh`, and the one request makes after a 401
ForcedRefreshes(p) ==
    SelectSeq(procs[p].locked_refreshes,
              LAMBDA c : c.returned # <<>> /\ (procs[p].cmd = "auth refresh" \/ c.before = 1))

\* C27: a forced token refresh (after a 401 in request, or by `auth refresh`)
\* always calls the token endpoint and saves new tokens before it returns,
\* even when the stored expires_at is more than REFRESH_MARGIN_SEC ahead; the
\* retry after a 401 never carries the access token that was just rejected.
C27_ForcedRefreshCallsEndpoint ==
    \A p \in DOMAIN procs :
        /\ ForcedRefreshes(p) # <<>> =>
              \E i \in TokenRequestsOf(p) :
                  /\ http[i].result = "granted"
                  /\ \A j \in ApiRequestsOf(p) : http[j].attempt = 0 => j < i
        /\ (IsRequest(p) /\ Attempted(p, 1)) =>
              http[AttemptOf(p, 1)].Authorization # http[AttemptOf(p, 0)].Authorization

(***************************************************************************)
(* Properties of the renderers called in sequence.                         *)
(***************************************************************************)
\* what the call that out records gives when made alone on the parsed data:
\* on the sections as the parser returned them
OutputAlone ==
    LET parsed == _parse_gl_rows(rows)
    IN  CASE out.op = "subtotal" -> out.subtotal = _compute_subtotal(parsed, tree)
          [] out.op = "lines" ->
                out.lines = _build_report_lines(parsed, tree, out.currency, 0, <<>>, out.expanded)
          [] out.op = "txns" -> out.lines = _build_txns_report(parsed, tree, out.currency)
          [] out.op = "by_customer" ->
                out.lines = _build_by_customer_report(parsed, tree, out.currency)
          [] out.op = "json" ->
                /\ out.account = tree_to_dict(parsed, tree)
                /\ out.total = _compute_subtotal(parsed, tree)[1]
          [] out.op = "collapse" -> out.node = _collapse_tree(tree)
          [] OTHER -> TRUE

RECURSIVE VisitedAccepted(_)
\* the accepted Data rows that lie directly inside a Section row, except the
\* rows of the Section rows nested inside an anonymous section: in the order
\* of the payload, the rows of a section before those of its sub-sections
VisitedAccepted(rs) ==
    IF rs = <<>> THEN <<>>
    ELSE (IF Head(rs).type # "Section" THEN <<>>
          ELSE AcceptedRowsIn(Head(rs).Rows)
               \o (IF IsAnonymousRow(Head(rs)) THEN <<>>
                   ELSE VisitedAccepted(RowList(Head(rs).Rows))))
         \o VisitedAccepted(Tail(rs))
\* the transactions of the rows, one per row
TxnsOfRows(rs) == [i \in 1..Len(rs) |-> RowTxn(rs[i])]
\* how many times x occurs in xs
Occurrences(xs, x) == Cardinality({i \in 1..Len(xs) : xs[i] = x})
SameBag(xs, ys) ==
    /\ Len(xs) = Len(ys)
    /\ \A i \in 1..Len(xs) : Occurrences(xs, xs[i]) = Occurrences(ys, xs[i])

\* C30: the transactions found in all_transactions over the list returned by
\* _parse_gl_rows are exactly the accepted Data rows that lie directly inside
\* some Section row, each once: none is lost and none is in two sections;
\* the Data rows outside any Section row and all rows of a Section nested
\* inside an anonymous section are in no returned section.
C30_TransactionsAreTheAcceptedRows ==
    pc = "parsed" =>
        SameBag(ExtendAll(sections), TxnsOfRows(VisitedAccepted(RowList(rows))))

(***************************************************************************)
(* Properties of the subtotal when the sections mirror the account tree.   *)
(***************************************************************************)
\* the names of the sections are pairwise distinct and none ends with
\* " " + the name of another
UnambiguousNames(ss) ==
    LET p == PreOrder(ss)
    IN  \A i, j \in 1..Len(p) :
            i # j => /\ p[i].name # p[j].name
                     /\ ~endswith(p[i].name, <<" ">> \o p[j].name)
RECURSIVE Mirrors(_, _)
\* under node, the children of the section matching an account node are
\* exactly the sections matching the children of the node
Mirrors(ss, node) ==
    LET m == Matching(ss, node.name)
        cs == node.children
    IN  /\ m # None
        /\ \A i \in 1..Len(cs) : Matching(ss, cs[i].name) # None
        /\ Len(m[1].children) = Len(cs)
        /\ {m[1].children[i] : i \in 1..Len(m[1].children)}
              = {Matching(ss, cs[i].name)[1] : i \in 1..Len(cs)}
        /\ \A i \in 1..Len(cs) : Mirrors(ss, cs[i])

====
